---- MODULE Spec2Model ----
(***************************************************************************)
(* A model of the web-browser core: the HTML parser (src/src/html.rs), the  *)
(* CSS parser (src/src/css.rs) and the layout engine                        *)
(* (src/src/render_layout.rs).  Source text is a sequence of one-character  *)
(* strings, so that the parsers work on characters as the code does.  A     *)
(* panic of the code is a result with ok = FALSE.                           *)
(***************************************************************************)
EXTENDS Integers, Sequences, FiniteSets, TLC

VARIABLES
    pc,         \* the position of the run: which step comes next
    shape,      \* how the source text under test was put together
    source,     \* the HTML source text handed to parse_html
    parsed,     \* the result of parse_html
    document,   \* Window::document after set_elements
    viewport,   \* the viewport size given to the layout
    layout,     \* Window::layout after update_page_layout
    mouse_position, \* Window::mouse_position
    hit,        \* what the hit tests answered for mouse_position
    scroll_y,   \* Window::scroll_y
    focused_on_toolbar, \* Window::focused_on_toolbar
    toolbar     \* Window::toolbar

vars == <<pc, shape, source, parsed, document, viewport, layout, mouse_position, hit,
          scroll_y, focused_on_toolbar, toolbar>>

(***************************************************************************)
(* Characters                                                               *)
(***************************************************************************)
LowerSeq == <<"a", "b", "c", "d", "e", "f", "g", "h", "i", "j", "k", "l", "m", "n", "o", "p", "q", "r", "s", "t", "u", "v", "w", "x", "y", "z">>

UpperSeq == <<"A", "B", "C", "D", "E", "F", "G", "H", "I", "J", "K", "L", "M", "N", "O", "P", "Q", "R", "S", "T", "U", "V", "W", "X", "Y", "Z">>

DigitSeq == <<"0", "1", "2", "3", "4", "5", "6", "7", "8", "9">>

Range(f) == {f[i] : i \in DOMAIN f}

is_alphabetic(c) == c \in Range(LowerSeq) \cup Range(UpperSeq)

is_numeric(c) == c \in Range(DigitSeq)

is_whitespace(c) == c \in {" ", "\n", "\t"}

to_lowercase(c) ==
    IF c \in Range(UpperSeq)
    THEN LowerSeq[CHOOSE i \in DOMAIN UpperSeq : UpperSeq[i] = c]
    ELSE c

to_digit(c) == (CHOOSE i \in DOMAIN DigitSeq : DigitSeq[i] = c) - 1

(***************************************************************************)
(* Strings                                                                  *)
(***************************************************************************)
RECURSIVE trim_start(_)
trim_start(s) ==
    IF s # <<>> /\ is_whitespace(Head(s)) THEN trim_start(Tail(s)) ELSE s

RECURSIVE trim_end(_)
trim_end(s) ==
    IF s # <<>> /\ is_whitespace(s[Len(s)])
    THEN trim_end(SubSeq(s, 1, Len(s) - 1))
    ELSE s

trim(s) == trim_end(trim_start(s))

starts_with(s, prefix) ==
    Len(s) >= Len(prefix) /\ SubSeq(s, 1, Len(prefix)) = prefix

ends_with(s, suffix) ==
    Len(s) >= Len(suffix) /\ SubSeq(s, Len(s) - Len(suffix) + 1, Len(s)) = suffix

strip_suffix(s, suffix) == SubSeq(s, 1, Len(s) - Len(suffix))

\* str::replace: the non-overlapping matches, left to right
RECURSIVE replace(_, _, _)
replace(s, from, to) ==
    IF Len(s) < Len(from) THEN s
    ELSE LET found == starts_with(s, from) IN
         (IF found THEN to ELSE <<Head(s)>>)
         \o replace(IF found THEN SubSeq(s, Len(from) + 1, Len(s)) ELSE Tail(s),
                    from, to)

\* str::split(" "): the pieces between single spaces, empty pieces kept
RECURSIVE split_from(_, _, _)
split_from(s, current, pieces) ==
    IF s = <<>> THEN Append(pieces, current)
    ELSE split_from(Tail(s),
                    IF Head(s) = " " THEN <<>> ELSE Append(current, Head(s)),
                    IF Head(s) = " " THEN Append(pieces, current) ELSE pieces)

split(s) == split_from(s, <<>>, <<>>)

RECURSIVE Concat(_)
Concat(ss) == IF ss = <<>> THEN <<>> ELSE Head(ss) \o Concat(Tail(ss))

Nbsp == <<"&", "n", "b", "s", "p", ";">>

\* the result of a call that panicked
Panic == [ok |-> FALSE, val |-> <<>>, rest |-> <<>>]

Ok(val, rest) == [ok |-> TRUE, val |-> val, rest |-> rest]

\* the toolbar of Window::new
Toolbar_new == [height |-> 50, url |-> <<"N", "o", "U", "R", "L">>]

(***************************************************************************)
(* Variants of definitions below, each changed the way a slip in the code   *)
(* would change it; the properties are tried against them.                  *)
(***************************************************************************)
\* retain_element with the test for the empty PlainText left out
retain_every_element(x) == TRUE

\* strip_inner_text with its two steps the other way round
strip_inner_text_replace_first(x) ==
    [x EXCEPT !.inner_text = trim(replace(x.inner_text, Nbsp, <<" ">>))]

\* unknown_rule as a fatal error
unknown_rule_panics(identifier, value) == Panic

\* wraps with a word that ends on the viewport's edge taken to the next line
wraps_on_the_edge(x_position, word_width, viewport_size) ==
    x_position + word_width >= viewport_size.width

\* Word_is_position_inside with the right and the bottom edge left out
Word_is_position_inside_open(word, x, y) ==
    ~( x < word.position.x
       \/ y < word.position.y
       \/ x >= word.position.x + word.width
       \/ y >= word.position.y + word.height )

(***************************************************************************)
(* html.rs                                                                  *)
(***************************************************************************)
TagTable ==
    { <<<<"h", "1">>, "H1">>, <<<<"d", "i", "v">>, "Div">>, <<<<"b", "o", "d", "y">>, "Body">>,
      <<<<"h", "t", "m", "l">>, "Html">>, <<<<"p">>, "Paragraph">>, <<<<"t", "i", "t", "l", "e">>, "Title">>,
      <<<<"h", "e", "a", "d", "e", "r">>, "Header">>, <<<<"m", "e", "t", "a">>, "Meta">>, <<<<"h", "e", "a", "d">>, "Head">>,
      <<<<"l", "i", "n", "k">>, "Link">>, <<<<"i", "m", "g">>, "Img">>, <<<<"a">>, "A">>,
      <<<<"b">>, "B">>, <<<<"u">>, "U">>, <<<<"t", "d">>, "Td">>, <<<<"u", "l">>, "Ul">>,
      <<<<"t", "r">>, "Tr">>, <<<<"l", "i">>, "Li">>, <<<<"b", "r">>, "Br">>,
      <<<<"t", "a", "b", "l", "e">>, "Table">>, <<<<"c", "e", "n", "t", "e", "r">>, "Center">>, <<<<"s", "p", "a", "n">>, "Span">>,
      <<<<"i", "n", "p", "u", "t">>, "Input">>, <<<<"f", "o", "r", "m">>, "Form">>, <<<<"s", "c", "r", "i", "p", "t">>, "Script">> }

\* Tag_from_string with a default variant in place of the error
Tag_from_string_default_div(tag) ==
    IF \E e \in TagTable : e[1] = tag
    THEN [ok |-> TRUE, tag |-> (CHOOSE e \in TagTable : e[1] = tag)[2]]
    ELSE [ok |-> TRUE, tag |-> "Div"]

Tag_from_string(tag) ==
    IF \E e \in TagTable : e[1] = tag
    THEN [ok |-> TRUE, tag |-> (CHOOSE e \in TagTable : e[1] = tag)[2]]
    ELSE [ok |-> FALSE, tag |-> "Err"]

Element_new(tag) ==
    [element_type |-> tag, children |-> <<>>, inner_text |-> <<>>,
     attributes |-> {}]

Element_new_with_text(tag, inner_text) ==
    [element_type |-> tag, children |-> <<>>, inner_text |-> inner_text,
     attributes |-> {}]

RECURSIVE get_identifier_from(_, _)
get_identifier_from(string, s) ==
    IF s # <<>> /\ ( is_alphabetic(Head(s))
                     \/ (is_numeric(Head(s)) /\ string # <<>>)
                     \/ Head(s) = "-" )
    THEN get_identifier_from(Append(string, Head(s)), Tail(s))
    ELSE Ok(string, s)

get_identifier(s) == get_identifier_from(<<>>, s)

is_quotation(c) == c = "'" \/ c = "\""

RECURSIVE get_string_from(_, _)
get_string_from(output, s) ==
    IF s = <<>> THEN Panic
    ELSE IF is_quotation(Head(s)) THEN Ok(output, Tail(s))
    ELSE get_string_from(Append(output, Head(s)), Tail(s))

get_string(s) ==
    IF s = <<>> \/ ~is_quotation(Head(s)) THEN Panic
    ELSE get_string_from(<<>>, Tail(s))

\* HashMap::insert: the entry of an existing key is replaced
HashMap_insert(map, key, value) ==
    {e \in map : e[1] # key} \cup {<<key, value>>}

\* one turn of the loop of parse_attributes on a character that does not
\* end it: white space is skipped, anything else starts identifier="string"
parse_attribute(output, s) ==
    LET insert(key, string) ==
            IF ~string.ok THEN Panic
            ELSE Ok(HashMap_insert(output, key, string.val), string.rest)
        value(identifier) ==
            IF identifier.rest = <<>> \/ Head(identifier.rest) # "=" THEN Panic
            ELSE insert(identifier.val, get_string(Tail(identifier.rest)))
    IN  IF is_whitespace(Head(s)) THEN Ok(output, Tail(s))
        ELSE value(get_identifier(s))

\* the loop of parse_attributes; state is the map so far and the rest of
\* the text, or the panic of the last turn
RECURSIVE parse_attributes_from(_)
parse_attributes_from(state) ==
    IF ~state.ok \/ state.rest = <<>> THEN Panic
    ELSE IF Head(state.rest) \in {">", "/"} THEN state
    ELSE parse_attributes_from(parse_attribute(state.val, state.rest))

parse_attributes(s) == parse_attributes_from(Ok({}, s))

VoidTags == {<<"l", "i", "n", "k">>, <<"m", "e", "t", "a">>, <<"i", "m", "g">>, <<"i", "n", "p", "u", "t">>, <<"b", "r">>}

\* the two passes that end parse_element_content: the inner text of every
\* element is trimmed and has its &nbsp; replaced, then the empty PlainText
\* elements are dropped
strip_inner_text(x) ==
    [x EXCEPT !.inner_text = replace(trim(x.inner_text), Nbsp, <<" ">>)]

retain_element(x) ==
    IF x.element_type = "PlainText" THEN x.inner_text # <<>> ELSE TRUE

finish_content(elements) ==
    SelectSeq([i \in DOMAIN elements |-> strip_inner_text(elements[i])],
              retain_element)

\* the arm of parse_element_content for a character that opens no tag
push_text(elements, c) ==
    IF elements # <<>>
    THEN [elements EXCEPT ![Len(elements)].inner_text = Append(@, c)]
    ELSE <<Element_new_with_text("PlainText", <<c>>)>>

RECURSIVE parse_element_content_from(_), parse_html_element(_)

\* one turn of the loop of parse_element_content that does not end it: a
\* child element after "<" and a letter, or one character of text
parse_content_item(elements, s) ==
    LET push(child_element) ==
            IF ~child_element.ok THEN Panic
            ELSE Ok(Append(elements, child_element.val), child_element.rest)
    IN  IF Head(s) = "<"
        THEN IF Len(s) < 2 \/ ~is_alphabetic(s[2]) THEN Panic
             ELSE push(parse_html_element(s))
        ELSE Ok(push_text(elements, Head(s)), Tail(s))

\* the loop of parse_element_content, which ends at "</" or at the end of
\* the text
parse_element_content_from(state) ==
    IF ~state.ok THEN Panic
    ELSE IF state.rest = <<>>
            \/ (Len(state.rest) >= 2 /\ state.rest[1] = "<"
                /\ state.rest[2] = "/")
    THEN Ok(finish_content(state.val), state.rest)
    ELSE parse_element_content_from(parse_content_item(state.val, state.rest))

parse_element_content(s) == parse_element_content_from(Ok(<<>>, s))

\* close_element without the comparison of the two names
close_element_any_name(tag, attributes, children) ==
    LET close(element_type, closing_tag) ==
            IF closing_tag.rest = <<>> \/ Head(closing_tag.rest) # ">"
            THEN Panic
            ELSE IF ~element_type.ok THEN Panic
            ELSE Ok([element_type |-> element_type.tag,
                     children |-> children.val,
                     inner_text |-> <<>>,
                     attributes |-> attributes],
                    Tail(closing_tag.rest))
    IN  IF ~children.ok THEN Panic
        ELSE IF Len(children.rest) < 2 \/ children.rest[1] # "<"
                \/ children.rest[2] # "/"
        THEN Panic
        ELSE close(Tag_from_string(tag),
                   get_identifier(SubSeq(children.rest, 3, Len(children.rest))))

\* the end of parse_html_element after the children: "</", the closing
\* identifier, ">", and the two names equal
close_element(tag, attributes, children) ==
    LET close(element_type, closing_tag) ==
            IF closing_tag.rest = <<>> \/ Head(closing_tag.rest) # ">"
            THEN Panic
            ELSE IF tag # closing_tag.val THEN Panic
            ELSE IF ~element_type.ok THEN Panic
            ELSE Ok([element_type |-> element_type.tag,
                     children |-> children.val,
                     inner_text |-> <<>>,
                     attributes |-> attributes],
                    Tail(closing_tag.rest))
    IN  IF ~children.ok THEN Panic
        ELSE IF Len(children.rest) < 2 \/ children.rest[1] # "<"
                \/ children.rest[2] # "/"
        THEN Panic
        ELSE close(Tag_from_string(tag),
                   get_identifier(SubSeq(children.rest, 3, Len(children.rest))))

\* the arm of parse_html_element for "/" after the attributes: "/>" ends
\* the element
self_closing_element(tag, attributes, s) ==
    LET element(element_type) ==
            IF ~element_type.ok THEN Panic
            ELSE Ok([Element_new(element_type.tag)
                         EXCEPT !.attributes = attributes],
                    SubSeq(s, 3, Len(s)))
    IN  IF Len(s) < 2 \/ s[2] # ">" THEN Panic
        ELSE element(Tag_from_string(tag))

\* the short circuit of parse_html_element for link, meta, img, input, br
void_element(tag, attributes, s) ==
    IF s = <<>> \/ Head(s) # ">" THEN Panic
    ELSE Ok([Element_new(Tag_from_string(tag).tag)
                 EXCEPT !.attributes = attributes], Tail(s))

parse_html_element(s) ==
    LET content(tag, attributes) ==
            IF ~attributes.ok THEN Panic
            ELSE IF tag \in VoidTags
            THEN void_element(tag, attributes.val, attributes.rest)
            ELSE IF Head(attributes.rest) = "/"
            THEN self_closing_element(tag, attributes.val, attributes.rest)
            ELSE close_element(tag, attributes.val,
                               parse_element_content(Tail(attributes.rest)))
        element(tag) == content(tag.val, parse_attributes(tag.rest))
    IN  IF s = <<>> \/ Head(s) # "<" THEN Panic
        ELSE element(get_identifier(Tail(s)))

Doctype == <<"<", "!", "d", "o", "c", "t", "y", "p", "e", " ", "h", "t", "m", "l", ">">>

\* one turn of the loop of parse_html_iter: the DOCTYPE, an element, or
\* white space
parse_html_item(elements, s) ==
    LET push(element) ==
            IF ~element.ok THEN Panic
            ELSE Ok(Append(elements, element.val), element.rest)
    IN  IF Head(s) = "<"
        THEN IF Len(s) >= 2 /\ s[2] = "!"
             THEN IF Len(s) >= Len(Doctype)
                     /\ \A i \in DOMAIN Doctype : to_lowercase(s[i]) = Doctype[i]
                  THEN Ok(elements, SubSeq(s, Len(Doctype) + 1, Len(s)))
                  ELSE Panic
             ELSE push(parse_html_element(s))
        ELSE IF is_whitespace(Head(s)) THEN Ok(elements, Tail(s))
        ELSE Panic

\* the loop of parse_html_iter, which ends with the text
RECURSIVE parse_html_iter(_)
parse_html_iter(state) ==
    IF ~state.ok THEN Panic
    ELSE IF state.rest = <<>> THEN state
    ELSE parse_html_iter(parse_html_item(state.val, state.rest))

parse_html(html) == parse_html_iter(Ok(<<>>, html))

(***************************************************************************)
(* css.rs                                                                   *)
(* A Value is [kind, arg]; arg is a Unit or a Color or a keyword, written   *)
(* [name, n] with n the numbers it carries: Px(50) is [name |-> "Px",       *)
(* n |-> <<50>>], Hex(r, g, b) is [name |-> "Hex", n |-> <<r, g, b>>], and  *)
(* Em(2.5) carries <<25, 1>>: the digits and how many follow the point.     *)
(***************************************************************************)
I32Max == 2147483647

RECURSIVE digits_value(_, _)
digits_value(acc, s) ==
    IF s = <<>> THEN acc ELSE digits_value(acc * 10 + to_digit(Head(s)), Tail(s))

all_numeric(s) == \A i \in DOMAIN s : is_numeric(s[i])

\* str::parse::<i32>: an optional sign, then one digit or more, within i32
parse_i32(s) ==
    LET signed == s # <<>> /\ Head(s) \in {"+", "-"}
        digits == IF signed THEN Tail(s) ELSE s
        n      == digits_value(0, digits)
    IN  IF digits = <<>> \/ ~all_numeric(digits) THEN [ok |-> FALSE, n |-> 0]
        ELSE IF signed /\ Head(s) = "-"
             THEN [ok |-> n <= I32Max + 1, n |-> 0 - n]
             ELSE [ok |-> n <= I32Max, n |-> n]

\* str::parse::<f32> on decimal notation: an optional sign, digits with at
\* most one point and at least one digit (exponents, inf and nan are written
\* with letters the value alphabet of the model does not hold)
parse_f32(s) ==
    LET signed == s # <<>> /\ Head(s) \in {"+", "-"}
        body   == IF signed THEN Tail(s) ELSE s
        points == {i \in DOMAIN body : body[i] = "."}
        digits == SelectSeq(body, is_numeric)
        frac   == IF points = {} THEN 0
                  ELSE Len(body) - (CHOOSE i \in points : TRUE)
        n      == digits_value(0, digits)
    IN  IF digits = <<>> \/ Cardinality(points) > 1
           \/ Len(digits) + Cardinality(points) # Len(body)
        THEN [ok |-> FALSE, n |-> <<>>]
        ELSE [ok |-> TRUE,
              n |-> <<IF signed /\ Head(s) = "-" THEN 0 - n ELSE n, frac>>]

Unit(name, n) == [kind |-> "Unit", arg |-> [name |-> name, n |-> n]]

Color(name, n) == [kind |-> "Color", arg |-> [name |-> name, n |-> n]]

Keyword(kind, name) == [kind |-> kind, arg |-> [name |-> name, n |-> <<>>]]

KeywordTable ==
    { <<<<"w", "h", "i", "t", "e">>, Color("White", <<>>)>>,
      <<<<"g", "r", "a", "y">>, Color("Gray", <<>>)>>,
      <<<<"l", "i", "g", "h", "t", "g", "r", "a", "y">>, Color("Lightgray", <<>>)>>,
      <<<<"s", "o", "l", "i", "d">>, Keyword("BorderStyle", "Solid")>>,
      <<<<"t", "r", "a", "n", "s", "p", "a", "r", "e", "n", "t">>, Color("Transparent", <<>>)>>,
      <<<<"b", "l", "o", "c", "k">>, Keyword("DisplayStyle", "Block")>>,
      <<<<"r", "i", "g", "h", "t">>, Keyword("Direction", "Right")>>,
      <<<<"l", "e", "f", "t">>, Keyword("Direction", "Left")>>,
      <<<<"n", "o", "n", "e">>, Keyword("DisplayStyle", "None")>>,
      <<<<"i", "t", "a", "l", "i", "c">>, Keyword("FontStyle", "Italic")>>,
      <<<<"n", "o", "w", "r", "a", "p">>, Keyword("WhiteSpace", "NoWrap")>>,
      <<<<"n", "o", "r", "m", "a", "l">>, Keyword("FontWeight", "Normal")>>,
      <<<<"f", "l", "e", "x">>, Keyword("DisplayStyle", "Flex")>>,
      <<<<"i", "n", "h", "e", "r", "i", "t">>, Keyword("Inherit", "Inherit")>>,
      <<<<"a", "b", "s", "o", "l", "u", "t", "e">>, Keyword("Position", "Absolute")>> }

\* the arm of Value::from_string for a token that starts with '#'
hex_token_value(css_value) == Color("Black", <<>>)

\* Value::from_string: the first arm of the chain whose condition holds
\* decides; an arm that does not return falls through to the panic
Value_from_string(css_value) ==
    LET digits(s) == IF all_numeric(s) THEN parse_i32(s)
                     ELSE [ok |-> FALSE, n |-> 0]
        integer(name, v) == IF v.ok THEN Ok(Unit(name, <<v.n>>), <<>>)
                            ELSE Panic
        float(name, v) == IF v.ok THEN Ok(Unit(name, v.n), <<>>) ELSE Panic
        number(v) == IF v.ok
                     THEN Ok([kind |-> "Number",
                              arg |-> [name |-> "Number", n |-> <<v.n>>]], <<>>)
                     ELSE Panic
    IN  IF ends_with(css_value, <<"p", "x">>)
        THEN integer("Px", digits(strip_suffix(css_value, <<"p", "x">>)))
        ELSE IF ends_with(css_value, <<"p", "t">>)
        THEN integer("Pt", digits(strip_suffix(css_value, <<"p", "t">>)))
        ELSE IF ends_with(css_value, <<"e", "m">>)
        THEN float("Em", parse_f32(strip_suffix(css_value, <<"e", "m">>)))
        ELSE IF ends_with(css_value, <<"%">>)
        THEN integer("Percentage", parse_i32(strip_suffix(css_value, <<"%">>)))
        ELSE IF \E e \in KeywordTable : e[1] = css_value
        THEN Ok((CHOOSE e \in KeywordTable : e[1] = css_value)[2], <<>>)
        ELSE IF starts_with(css_value, <<"#">>)
        THEN Ok(hex_token_value(css_value), <<>>)
        ELSE number(digits(css_value))

None == <<>>

Some(v) == <<v>>

\* the arm of Rule::new for a property that is none of the four known ones
unknown_rule(identifier, value) == Ok(None, <<>>)

Rule_new(identifier, value) ==
    IF identifier \in {<<"w", "i", "d", "t", "h">>, <<"m", "a", "r", "g", "i", "n", "-", "l", "e", "f", "t">>, <<"f", "o", "n", "t", "-", "s", "i", "z", "e">>}
    THEN IF value # <<>> /\ Head(value).kind = "Unit"
         THEN Ok(Some([rule |-> IF identifier = <<"w", "i", "d", "t", "h">> THEN "Width"
                                ELSE IF identifier = <<"m", "a", "r", "g", "i", "n", "-", "l", "e", "f", "t">>
                                     THEN "MarginLeft" ELSE "FontSize",
                       arg |-> Head(value).arg]), <<>>)
         ELSE Panic
    ELSE IF identifier = <<"b", "a", "c", "k", "g", "r", "o", "u", "n", "d", "-", "c", "o", "l", "o", "r">>
    THEN IF value # <<>> /\ Head(value).kind = "Color"
         THEN Ok(Some([rule |-> "BackgroundColor", arg |-> Head(value).arg]),
                 <<>>)
         ELSE Panic
    ELSE unknown_rule(identifier, value)

RECURSIVE skip_whitespace(_)
skip_whitespace(s) ==
    IF s # <<>> /\ is_whitespace(Head(s)) THEN skip_whitespace(Tail(s)) ELSE s

RECURSIVE css_get_identifier_from(_, _)
css_get_identifier_from(output, s) ==
    IF s # <<>> /\ Head(s) # ":" /\ (Head(s) = "-" \/ is_alphabetic(Head(s)))
    THEN css_get_identifier_from(Append(output, Head(s)), Tail(s))
    ELSE Ok(output, s)

css_get_identifier(s) == css_get_identifier_from(<<>>, s)

RECURSIVE collect_until_terminator_from(_, _, _)
collect_until_terminator_from(output, s, terminators) ==
    IF s = <<>> THEN Panic
    ELSE IF Head(s) \notin terminators
         THEN collect_until_terminator_from(Append(output, Head(s)), Tail(s),
                                            terminators)
         ELSE Ok(output, s)

collect_until_terminator(s, terminators) ==
    collect_until_terminator_from(<<>>, s, terminators)

HexSeq == <<"0", "1", "2", "3", "4", "5", "6", "7", "8", "9", "a", "b", "c", "d", "e", "f">>

is_hex_digit(c) == to_lowercase(c) \in Range(HexSeq)

hex_digit(c) == (CHOOSE i \in DOMAIN HexSeq : HexSeq[i] = to_lowercase(c)) - 1

\* collect_hex: two characters read as one base-16 u8
collect_hex(s) ==
    IF Len(s) < 2 \/ ~is_hex_digit(s[1]) \/ ~is_hex_digit(s[2]) THEN Panic
    ELSE Ok(hex_digit(s[1]) * 16 + hex_digit(s[2]), SubSeq(s, 3, Len(s)))

collect_hex_color(s) ==
    LET color(r, g, b) ==
            IF ~r.ok \/ ~g.ok \/ ~b.ok THEN Panic
            ELSE Ok(Color("Hex", <<r.val, g.val, b.val>>).arg, b.rest)
        blue(r, g) == color(r, g, collect_hex(g.rest))
        green(r) == blue(r, collect_hex(r.rest))
    IN  IF s = <<>> \/ Head(s) # "#" THEN Panic
        ELSE green(collect_hex(Tail(s)))

\* one turn of the inner loop of parse_css_value: a token up to ';' or ' '
\* is classified and pushed
parse_css_value_token(output, s) ==
    LET push(v, rest) == IF ~v.ok THEN Panic
                         ELSE Ok(Append(output, v.val), rest)
        classify(value) == IF ~value.ok THEN Panic
                           ELSE push(Value_from_string(value.val), value.rest)
    IN  classify(collect_until_terminator(s, {";", " "}))

\* the inner loop of parse_css_value: it ends on ';' and goes on after ' '
RECURSIVE parse_css_value_tokens(_)
parse_css_value_tokens(state) ==
    IF ~state.ok THEN Panic
    ELSE IF Head(state.rest) = ";" THEN state
    ELSE parse_css_value_tokens(
             parse_css_value_token(state.val, skip_whitespace(state.rest)))

\* one turn of the outer loop of parse_css_value that does not end it
parse_css_value_item(output, s) ==
    LET push(color) ==
            IF ~color.ok THEN Panic
            ELSE Ok(Append(output, [kind |-> "Color", arg |-> color.val]),
                    color.rest)
    IN  IF is_alphabetic(Head(s)) \/ is_numeric(Head(s)) \/ Head(s) = "."
        THEN parse_css_value_tokens(parse_css_value_token(output, s))
        ELSE IF Head(s) = "#" THEN push(collect_hex_color(s))
        ELSE Panic

\* the outer loop of parse_css_value, which ends on ';'
RECURSIVE parse_css_value_from(_)
parse_css_value_from(state) ==
    IF ~state.ok \/ state.rest = <<>> THEN Panic
    ELSE IF Head(state.rest) = ";" THEN state
    ELSE parse_css_value_from(parse_css_value_item(state.val, state.rest))

parse_css_value(s) == parse_css_value_from(Ok(<<>>, s))

\* the arm of parse_block for a declaration: identifier ':' value ';'
parse_declaration(rules, s) ==
    LET push(rule, rest) == IF ~rule.ok THEN Panic
                            ELSE Ok(rules \o rule.val, rest)
        new(identifier, value) ==
            IF ~value.ok THEN Panic
            ELSE IF value.rest = <<>> \/ Head(value.rest) # ";" THEN Panic
            ELSE push(Rule_new(identifier, value.val), Tail(value.rest))
        after(identifier, colon) ==
            IF colon = <<>> \/ Head(colon) # ":" THEN Panic
            ELSE new(identifier, parse_css_value(skip_whitespace(Tail(colon))))
        declaration(identifier) ==
            after(identifier.val, skip_whitespace(identifier.rest))
    IN  declaration(css_get_identifier(s))

\* one turn of the loop of parse_block that does not end it
parse_block_item(rules, s) ==
    IF is_whitespace(Head(s)) THEN Ok(rules, skip_whitespace(s))
    ELSE IF is_alphabetic(Head(s)) THEN parse_declaration(rules, s)
    ELSE IF Head(s) = ";" THEN Ok(rules, Tail(s))
    ELSE Panic

\* the loop of parse_block, which ends on '}'
RECURSIVE parse_block_from(_)
parse_block_from(state) ==
    IF ~state.ok \/ state.rest = <<>> THEN Panic
    ELSE IF Head(state.rest) = "}" THEN state
    ELSE parse_block_from(parse_block_item(state.val, state.rest))

parse_block(s) ==
    IF s = <<>> \/ Head(s) # "{" THEN Panic
    ELSE parse_block_from(Ok(<<>>, Tail(s)))

\* parse_inline_css that closes the block without the ';' of its own
parse_inline_css_no_semicolon(inline_css) ==
    parse_block(<<"{">> \o inline_css \o <<"}">>)

parse_inline_css(inline_css) == parse_block(<<"{">> \o inline_css \o <<";", "}">>)

(***************************************************************************)
(* css.rs: style sheets                                                     *)
(***************************************************************************)
Selector_Element(tag) == tag

Selector_new(selector) ==
    IF selector = <<"p">> THEN Ok(Selector_Element("Paragraph"), <<>>)
    ELSE Panic

RuleSet_new(selectors, rules) == [selectors |-> selectors, rules |-> rules]

\* parse_css_item whose whitespace arm leaves the text where it is
parse_css_item_whitespace_kept(rule_sets, s) ==
    LET close(selector, rules) ==
            IF ~rules.ok THEN Panic
            ELSE IF rules.rest = <<>> \/ Head(rules.rest) # "}" THEN Panic
            ELSE Ok(Append(rule_sets, RuleSet_new(<<selector>>, rules.val)),
                    Tail(rules.rest))
        block(selector, rest) ==
            IF rest = <<>> \/ Head(rest) # "{" THEN Panic
            ELSE close(selector, parse_block(rest))
        select(selector, rest) ==
            IF ~selector.ok THEN Panic
            ELSE block(selector.val, skip_whitespace(rest))
        name(identifier) == select(Selector_new(identifier.val), identifier.rest)
    IN  IF is_whitespace(Head(s)) THEN Ok(rule_sets, s)
        ELSE name(css_get_identifier(s))

\* the body of the loop of parse_css: white space is skipped; anything else
\* starts a rule set of one selector and one block
parse_css_item(rule_sets, s) ==
    LET close(selector, rules) ==
            IF ~rules.ok THEN Panic
            ELSE IF rules.rest = <<>> \/ Head(rules.rest) # "}" THEN Panic
            ELSE Ok(Append(rule_sets, RuleSet_new(<<selector>>, rules.val)),
                    Tail(rules.rest))
        block(selector, rest) ==
            IF rest = <<>> \/ Head(rest) # "{" THEN Panic
            ELSE close(selector, parse_block(rest))
        select(selector, rest) ==
            IF ~selector.ok THEN Panic
            ELSE block(selector.val, skip_whitespace(rest))
        name(identifier) == select(Selector_new(identifier.val), identifier.rest)
    IN  IF is_whitespace(Head(s)) THEN Ok(rule_sets, skip_whitespace(s))
        ELSE name(css_get_identifier(s))

RECURSIVE parse_css_from(_)
parse_css_from(state) ==
    IF ~state.ok THEN Panic
    ELSE IF state.rest = <<>> THEN state
    ELSE parse_css_from(parse_css_item(state.val, state.rest))

parse_css(s) == parse_css_from(Ok(<<>>, s))

(***************************************************************************)
(* font.rs: the metrics of the loaded font.  The advance of a glyph is a    *)
(* property of the font file; GlyphUnits gives it at scale 40.              *)
(***************************************************************************)
FONT_SCALE == 40

GlyphUnits(c) ==
    CASE c = "A" -> 25
      [] c = "B" -> 40
      [] c = "C" -> 30
      [] c = "D" -> 20
      [] OTHER   -> 10

HeightUnits == 44

get_glyph_width(character, font_size) ==
    (GlyphUnits(character) * font_size) \div FONT_SCALE

get_glyph_height(font_size) == (HeightUnits * font_size) \div FONT_SCALE

RECURSIVE get_word_width(_, _)
get_word_width(word, font_size) ==
    IF word = <<>> THEN 0
    ELSE get_glyph_width(Head(word), font_size)
         + get_word_width(Tail(word), font_size)

(***************************************************************************)
(* Style attachment: Document::parse_inline_css over the elements           *)
(***************************************************************************)
get_attribute(element, name) ==
    IF \E e \in element.attributes : e[1] = name
    THEN Some((CHOOSE e \in element.attributes : e[1] = name)[2])
    ELSE None

RECURSIVE Element_parse_inline_css(_)
Element_parse_inline_css(element) ==
    LET styled(rules, kids) ==
            IF ~rules.ok \/ \E i \in DOMAIN kids : ~kids[i].ok THEN Panic
            ELSE Ok([element_type |-> element.element_type,
                     children     |-> [i \in DOMAIN kids |-> kids[i].val],
                     inner_text   |-> element.inner_text,
                     attributes   |-> element.attributes,
                     inner_styles |-> rules.val], <<>>)
        inline(style) == IF style = None THEN Ok(<<>>, <<>>)
                         ELSE parse_inline_css(style[1])
    IN  styled(inline(get_attribute(element, <<"s", "t", "y", "l", "e">>)),
               [i \in DOMAIN element.children |->
                   Element_parse_inline_css(element.children[i])])

Document_parse_inline_css(elements) ==
    LET all(done) == IF \E i \in DOMAIN done : ~done[i].ok THEN Panic
                     ELSE Ok([i \in DOMAIN done |-> done[i].val], <<>>)
    IN  all([i \in DOMAIN elements |-> Element_parse_inline_css(elements[i])])

(***************************************************************************)
(* render_layout.rs                                                         *)
(***************************************************************************)
DEFAULT_FONT_SIZE == 40

DEFAULT_H1_SIZE == DEFAULT_FONT_SIZE * 2

Position_new(x, y) == [x |-> x, y |-> y]

Position_add(a, b) == Position_new(a.x + b.x, a.y + b.y)

Size_new(width, height) == [width |-> width, height |-> height]

Word_make_relative_to(word, position) ==
    [word EXCEPT !.position = Position_add(@, position)]

Word_is_position_inside(word, x, y) ==
    ~( x < word.position.x
       \/ y < word.position.y
       \/ x > word.position.x + word.width
       \/ y > word.position.y + word.height )

RECURSIVE Sentence_is_position_inside_from(_, _, _)
Sentence_is_position_inside_from(words, x, y) ==
    IF words = <<>> THEN FALSE
    ELSE IF Word_is_position_inside(Head(words), x, y) THEN TRUE
    ELSE Sentence_is_position_inside_from(Tail(words), x, y)

Sentence_is_position_inside(sentence, x, y) ==
    Sentence_is_position_inside_from(sentence.words, x, y)

Sentence_make_relative_to(sentence, position) ==
    [sentence EXCEPT !.words =
        [i \in DOMAIN @ |-> Word_make_relative_to(@[i], position)]]

Paragraph_make_relative_to(paragraph, position) ==
    [paragraph EXCEPT !.sentences =
        [i \in DOMAIN @ |-> Sentence_make_relative_to(@[i], position)]]

\* combine_sentences putting the sentences of the other paragraph in front
Paragraph_combine_sentences_in_front(self, paragraph) ==
    [self EXCEPT !.sentences = paragraph.sentences \o @]

Paragraph_combine_sentences(self, paragraph) ==
    [self EXCEPT !.sentences = @ \o paragraph.sentences]

\* Color::blue(), and the Color made of a Hex(r, g, b): the channels stay
\* the three bytes (the code divides each by 255.0)
Color_blue == "blue"

ParagraphDefinition_from_string(element, string) ==
    [tag |-> element.element_type,
     sentences |-> << [words |-> split(string),
                       tag |-> element.element_type,
                       href |-> get_attribute(element, <<"h", "r", "e", "f">>),
                       text_color |-> IF element.element_type = "A"
                                      THEN Some(Color_blue) ELSE None] >>,
     font_size |-> IF element.element_type = "H1"
                   THEN DEFAULT_H1_SIZE ELSE DEFAULT_FONT_SIZE,
     background_color |-> None]

SentenceDefinition_as_string(sentence) == Concat(sentence.words)

RECURSIVE ParagraphDefinition_get_width_from(_, _)
ParagraphDefinition_get_width_from(length, sentences) ==
    IF sentences = <<>> THEN length
    ELSE ParagraphDefinition_get_width_from(
             length + get_word_width(SentenceDefinition_as_string(Head(sentences)),
                                     DEFAULT_FONT_SIZE * 2),
             Tail(sentences))

ParagraphDefinition_get_width(self) ==
    ParagraphDefinition_get_width_from(0, self.sentences)

seperation_width == 10

\* wraps that never takes a word to the next line
wraps_never(x_position, word_width, viewport_size) == FALSE

\* the test of compile that starts a new line
wraps(x_position, word_width, viewport_size) ==
    x_position + word_width > viewport_size.width

\* the body of the inner loop of compile: one word is placed at the cursor
\* (x, y) of state, on a new line when it would pass the viewport's width
compile_word(state, word, font_size, viewport_size) ==
    LET place(word_width, word_height, wrap) ==
            [words |-> Append(state.words,
                 [word |-> word,
                  position |-> Position_new(
                      IF wrap THEN 0 ELSE state.x,
                      IF wrap THEN state.y + word_height ELSE state.y),
                  width |-> word_width,
                  height |-> word_height]),
             x |-> (IF wrap THEN word_width ELSE state.x + word_width)
                   + seperation_width,
             y |-> IF wrap THEN state.y + word_height ELSE state.y]
        measured(word_width) ==
            place(word_width, get_glyph_height(font_size),
                  wraps(state.x, word_width, viewport_size))
    IN  measured(get_word_width(word, font_size))

\* the inner loop of compile: the words of one sentence that are left
RECURSIVE compile_words(_, _, _, _)
compile_words(state, todo, font_size, viewport_size) ==
    IF todo = <<>> THEN state
    ELSE compile_words(compile_word(state, Head(todo), font_size, viewport_size),
                       Tail(todo), font_size, viewport_size)

\* compile_sentence opening a new line for every sentence after the first
compile_sentence_on_new_line(state, sentence, font_size, viewport_size) ==
    LET push(placed) ==
            [sentences |-> Append(state.sentences,
                                  [words |-> placed.words,
                                   href |-> sentence.href,
                                   text_color |-> sentence.text_color]),
             x |-> placed.x, y |-> placed.y]
    IN  push(compile_words(
                 [words |-> <<>>, x |-> 0,
                  y |-> IF state.sentences = <<>> THEN 0
                        ELSE state.y + get_glyph_height(font_size)],
                 sentence.words, font_size, viewport_size))

\* the body of the outer loop of compile: one sentence is placed from the
\* cursor of state, which its last word moves on
compile_sentence(state, sentence, font_size, viewport_size) ==
    LET push(placed) ==
            [sentences |-> Append(state.sentences,
                                  [words |-> placed.words,
                                   href |-> sentence.href,
                                   text_color |-> sentence.text_color]),
             x |-> placed.x, y |-> placed.y]
    IN  push(compile_words([words |-> <<>>, x |-> state.x, y |-> state.y],
                           sentence.words, font_size, viewport_size))

\* the outer loop of compile: the sentences that are left
RECURSIVE compile_sentences(_, _, _, _)
compile_sentences(state, todo, font_size, viewport_size) ==
    IF todo = <<>> THEN state
    ELSE compile_sentences(
             compile_sentence(state, Head(todo), font_size, viewport_size),
             Tail(todo), font_size, viewport_size)

ParagraphDefinition_compile(self, viewport_size) ==
    LET paragraph(placed) ==
            [sentences |-> placed.sentences,
             height |-> placed.y + get_glyph_height(self.font_size),
             font_size |-> self.font_size,
             background_color |-> self.background_color]
    IN  paragraph(compile_sentences([sentences |-> <<>>, x |-> 0, y |-> 0],
                                    self.sentences, self.font_size,
                                    viewport_size))

\* the width a column gets when a further row has a cell in it
column_width(old, sentence_length) == sentence_length

\* the first loop of TableDefinition::compile over the cells of one row
RECURSIVE row_column_widths(_, _, _)
row_column_widths(max_column_widths, values, index) ==
    LET set(sentence_length) ==
            IF index <= Len(max_column_widths)
            THEN [max_column_widths EXCEPT
                     ![index] = column_width(@, sentence_length)]
            ELSE Append(max_column_widths, sentence_length)
    IN  IF index > Len(values) THEN max_column_widths
        ELSE row_column_widths(
                 set(ParagraphDefinition_get_width(values[index])),
                 values, index + 1)

RECURSIVE table_column_widths(_, _)
table_column_widths(max_column_widths, rows) ==
    IF rows = <<>> THEN max_column_widths
    ELSE table_column_widths(
             row_column_widths(max_column_widths, Head(rows).values, 1),
             Tail(rows))

RECURSIVE SumTo(_, _)
SumTo(widths, n) == IF n = 0 THEN 0 ELSE SumTo(widths, n - 1) + widths[n]

CellViewport == 2000

\* the second loop of TableDefinition::compile over the cells of one row
compile_row(row, y, max_column_widths) ==
    [column_index \in DOMAIN row.values |->
        Paragraph_make_relative_to(
            ParagraphDefinition_compile(row.values[column_index],
                                        Size_new(CellViewport, CellViewport)),
            Position_new(SumTo(max_column_widths, column_index - 1), y))]

RECURSIVE compile_rows(_, _, _, _)
compile_rows(rows, paragraphs, y, max_column_widths) ==
    IF rows = <<>> THEN paragraphs
    ELSE compile_rows(Tail(rows),
                      paragraphs \o compile_row(Head(rows), y, max_column_widths),
                      y + DEFAULT_FONT_SIZE, max_column_widths)

TableDefinition_compile(self, viewport_size) ==
    [paragraphs |->
        compile_rows(self.rows, <<>>, 0, table_column_widths(<<>>, self.rows))]

Definition_Paragraph(paragraph) == [kind |-> "Paragraph", def |-> paragraph]

Definition_Table(table) == [kind |-> "Table", def |-> table]

\* the loop of connect_paragraphs over the child's definitions: the
\* sentences of each paragraph go to the parent's last paragraph
RECURSIVE connect_paragraphs_from(_, _)
connect_paragraphs_from(parent_paragraph, children) ==
    IF children = <<>> THEN Ok(parent_paragraph, <<>>)
    ELSE IF Head(children).kind # "Paragraph" THEN Panic
    ELSE connect_paragraphs_from(
             [parent_paragraph EXCEPT
                 !.sentences = @ \o Head(children).def.sentences],
             Tail(children))

\* connect_paragraphs: val.parent is the parent afterwards, val.remainder
\* the Option it returns
connect_paragraphs(parent, child) ==
    LET connected(joined) ==
            IF ~joined.ok THEN Panic
            ELSE Ok([parent |-> [parent EXCEPT
                         !.children[Len(parent.children)] =
                             Definition_Paragraph(joined.val)],
                     remainder |-> None], <<>>)
    IN  IF parent.children # <<>>
           /\ parent.children[Len(parent.children)].kind = "Paragraph"
        THEN connected(connect_paragraphs_from(
                           parent.children[Len(parent.children)].def,
                           child.children))
        ELSE Ok([parent |-> parent, remainder |-> Some(child)], <<>>)

\* the body of the loop of collect_definition over the style rules: the
\* colour of a BackgroundColor rule replaces the one before; a colour that
\* is no Hex panics
background_color_rule(background_color, rule) ==
    IF rule.rule # "BackgroundColor" THEN Ok(background_color, <<>>)
    ELSE IF rule.arg.name = "Hex" THEN Ok(Some(rule.arg.n), <<>>)
    ELSE Panic

RECURSIVE background_color_from(_, _)
background_color_from(state, rules) ==
    IF ~state.ok THEN Panic
    ELSE IF rules = <<>> THEN state
    ELSE background_color_from(background_color_rule(state.val, Head(rules)),
                               Tail(rules))

\* the flag left as it was after a span or an a
flag_after_inline_unchanged(allow_paragraph_connecting) ==
    allow_paragraph_connecting

\* what collect_definition does to the flag after a span or an a
flag_after_inline(allow_paragraph_connecting) == TRUE

RECURSIVE collect_definition(_), collect_children(_, _, _, _),
          TableRowDefinition_values(_, _), TableDefinition_rows(_, _)

\* the body of the loop of collect_definition over the children; val is
\* the definition so far and the flag allow_paragraph_connecting
collect_child(element, background_color, definition, allow_paragraph_connecting, child) ==
    LET next(d, allow) ==
            Ok([definition |-> d, allow_paragraph_connecting |-> allow], <<>>)
        extend(children) == [definition EXCEPT !.children = @ \o children]
        push(d) == [definition EXCEPT !.children = Append(@, d)]
        connect(connected) ==
            IF ~connected.ok THEN Panic
            ELSE next(IF connected.val.remainder = None
                      THEN connected.val.parent
                      ELSE [connected.val.parent EXCEPT !.children =
                               @ \o connected.val.remainder[1].children],
                      flag_after_inline(allow_paragraph_connecting))
        nested(child_definition) ==
            IF ~child_definition.ok THEN Panic
            ELSE IF child.element_type \notin {"Span", "A"}
            THEN next(extend(child_definition.val.children), FALSE)
            ELSE IF allow_paragraph_connecting
            THEN connect(connect_paragraphs(definition, child_definition.val))
            ELSE next(extend(child_definition.val.children),
                      flag_after_inline(allow_paragraph_connecting))
        table(rows) ==
            IF ~rows.ok THEN Panic
            ELSE next(push(Definition_Table([rows |-> rows.val])),
                      allow_paragraph_connecting)
    IN  IF child.element_type = "PlainText"
        THEN next(push(Definition_Paragraph(
                      [ParagraphDefinition_from_string(element, child.inner_text)
                          EXCEPT !.background_color = background_color])),
                  TRUE)
        ELSE IF child.element_type = "Table"
        THEN table(TableDefinition_rows(Ok(<<>>, <<>>), child.children))
        ELSE nested(collect_definition(child))

\* the loop of collect_definition over the children that are left
collect_children(element, background_color, state, children) ==
    IF ~state.ok THEN Panic
    ELSE IF children = <<>> THEN Ok(state.val.definition, <<>>)
    ELSE collect_children(element, background_color,
             collect_child(element, background_color, state.val.definition,
                           state.val.allow_paragraph_connecting, Head(children)),
             Tail(children))

collect_definition(element) ==
    LET children(background_color) ==
            IF ~background_color.ok THEN Panic
            ELSE collect_children(element, background_color.val,
                     Ok([definition |-> [tag |-> element.element_type,
                                         children |-> <<>>],
                         allow_paragraph_connecting |-> FALSE], <<>>),
                     element.children)
    IN  children(background_color_from(Ok(None, <<>>), element.inner_styles))

\* TableRowDefinition_value taking the first definition of a cell that has
\* several
TableRowDefinition_value_first(values, child) ==
    LET push(definition) ==
            IF ~definition.ok THEN Panic
            ELSE IF Len(definition.val.children) < 1 THEN Panic
            ELSE IF definition.val.children[1].kind # "Paragraph" THEN Panic
            ELSE Ok(Append(values, definition.val.children[1].def), <<>>)
    IN  IF child.element_type # "Td" THEN Panic
        ELSE push(collect_definition(child))

\* the body of the loop of TableRowDefinition::from_element: a td that
\* collects to exactly one paragraph
TableRowDefinition_value(values, child) ==
    LET push(definition) ==
            IF ~definition.ok THEN Panic
            ELSE IF Len(definition.val.children) # 1 THEN Panic
            ELSE IF definition.val.children[1].kind # "Paragraph" THEN Panic
            ELSE Ok(Append(values, definition.val.children[1].def), <<>>)
    IN  IF child.element_type # "Td" THEN Panic
        ELSE push(collect_definition(child))

\* TableRowDefinition::from_element over the children of a tr that are left
TableRowDefinition_values(state, children) ==
    IF ~state.ok THEN Panic
    ELSE IF children = <<>> THEN state
    ELSE TableRowDefinition_values(
             TableRowDefinition_value(state.val, Head(children)),
             Tail(children))

\* the body of the loop of TableDefinition::from_element: a tr
TableDefinition_row(rows, child) ==
    LET push(values) == IF ~values.ok THEN Panic
                        ELSE Ok(Append(rows, [values |-> values.val]), <<>>)
    IN  IF child.element_type # "Tr" THEN Panic
        ELSE push(TableRowDefinition_values(Ok(<<>>, <<>>), child.children))

\* TableDefinition::from_element over the children of a table that are left
TableDefinition_rows(state, children) ==
    IF ~state.ok THEN Panic
    ELSE IF children = <<>> THEN state
    ELSE TableDefinition_rows(TableDefinition_row(state.val, Head(children)),
                              Tail(children))

\* the body of the first loop of Layout::from_body
body_definition(definitions, child) ==
    LET push(definition) == IF ~definition.ok THEN Panic
                            ELSE Ok(definitions \o definition.val.children, <<>>)
    IN  push(collect_definition(child))

\* the first loop of Layout::from_body: the definitions of the children
RECURSIVE body_definitions(_, _)
body_definitions(state, children) ==
    IF ~state.ok THEN Panic
    ELSE IF children = <<>> THEN state
    ELSE body_definitions(body_definition(state.val, Head(children)),
                          Tail(children))

RECURSIVE combine_all(_, _)
combine_all(paragraph, others) ==
    IF others = <<>> THEN paragraph
    ELSE combine_all(Paragraph_combine_sentences(paragraph, Head(others)),
                     Tail(others))

\* the body of the second loop of Layout::from_body: a paragraph is
\* compiled, a table compiled and flattened into the paragraph of its first
\* cell
collect_paragraph(paragraphs, definition, viewport_size) ==
    LET flatten(table_values) ==
            IF table_values.paragraphs = <<>> THEN Panic
            ELSE Ok(Append(paragraphs,
                           combine_all(Head(table_values.paragraphs),
                                       Tail(table_values.paragraphs))), <<>>)
    IN  IF definition.kind = "Paragraph"
        THEN Ok(Append(paragraphs,
                       ParagraphDefinition_compile(definition.def,
                                                   viewport_size)), <<>>)
        ELSE flatten(TableDefinition_compile(definition.def, viewport_size))

\* the second loop of Layout::from_body
RECURSIVE collect_paragraphs(_, _, _)
collect_paragraphs(state, definitions, viewport_size) ==
    IF ~state.ok THEN Panic
    ELSE IF definitions = <<>> THEN state
    ELSE collect_paragraphs(
             collect_paragraph(state.val, Head(definitions), viewport_size),
             Tail(definitions), viewport_size)

\* stack_paragraphs without the spacing between two paragraphs
RECURSIVE stack_paragraphs_no_spacing(_, _, _, _)
stack_paragraphs_no_spacing(done, paragraphs, current_y, spacing) ==
    IF paragraphs = <<>> THEN done
    ELSE stack_paragraphs_no_spacing(
             Append(done, Paragraph_make_relative_to(Head(paragraphs),
                                                     Position_new(0, current_y))),
             Tail(paragraphs),
             current_y + Head(paragraphs).height,
             spacing)

\* the last loop of Layout::from_body: the paragraphs one under the other
RECURSIVE stack_paragraphs(_, _, _, _)
stack_paragraphs(done, paragraphs, current_y, spacing) ==
    IF paragraphs = <<>> THEN done
    ELSE stack_paragraphs(
             Append(done, Paragraph_make_relative_to(Head(paragraphs),
                                                     Position_new(0, current_y))),
             Tail(paragraphs),
             current_y + Head(paragraphs).height + spacing,
             spacing)

Layout_from_body(element, viewport_size) ==
    LET stack(paragraphs) ==
            IF ~paragraphs.ok THEN Panic
            ELSE Ok([paragraphs |->
                        stack_paragraphs(<<>>, paragraphs.val, 0,
                            get_glyph_height(DEFAULT_FONT_SIZE) \div 2)], <<>>)
        compile(definitions) ==
            IF ~definitions.ok THEN Panic
            ELSE stack(collect_paragraphs(Ok(<<>>, <<>>), definitions.val,
                                          viewport_size))
    IN  compile(body_definitions(Ok(<<>>, <<>>), element.children))

Layout_make_relative_to(self, position) ==
    [self EXCEPT !.paragraphs =
        [i \in DOMAIN @ |-> Paragraph_make_relative_to(@[i], position)]]

\* Document::new keeps the elements and the rule sets of the style sheets
Document_new(elements, css_rules) ==
    [elements |-> elements, css_rules |-> css_rules]

\* the elements with the rules of every rule set that selects the tag of a
\* child of the body put after the inline styles of that child
Window_document_elements_cascaded(self) ==
    LET selected(tag) ==
            Concat([i \in DOMAIN self.css_rules |->
                       IF \E k \in DOMAIN self.css_rules[i].selectors :
                             self.css_rules[i].selectors[k] = Selector_Element(tag)
                       THEN self.css_rules[i].rules ELSE <<>>])
        block(e) == [e EXCEPT !.inner_styles = @ \o selected(e.element_type)]
        body(e) == [e EXCEPT !.children = [k \in DOMAIN @ |-> block(@[k])]]
        root(e) == [e EXCEPT !.children = [j \in DOMAIN @ |-> body(@[j])]]
    IN  [i \in DOMAIN self.elements |-> root(self.elements[i])]

\* the elements Window::update_page_layout reads off the document
Window_document_elements(self) == self.elements

(***************************************************************************)
(* window.rs: the page from the source text to the layout                   *)
(***************************************************************************)
WindowMargin == 40

\* Window::update_page_layout: the body is looked up among the children of
\* the first element, laid out in the inner size less the margin, and moved
\* by the margin
update_page_layout(elements, inner_size) ==
    LET moved(made) ==
            IF ~made.ok THEN Panic
            ELSE Ok(Layout_make_relative_to(
                        made.val, Position_new(WindowMargin, WindowMargin)),
                    <<>>)
        body(bodies) ==
            IF bodies = <<>> THEN Panic
            ELSE moved(Layout_from_body(
                           Head(bodies),
                           Size_new(inner_size.width - WindowMargin,
                                    inner_size.height - WindowMargin)))
    IN  IF elements = <<>> THEN Panic
        ELSE body(SelectSeq(elements[1].children,
                            LAMBDA e : e.element_type = "Body"))

(***************************************************************************)
(* The HTML documents under test: an optional DOCTYPE, an optional          *)
(* html/body wrapper, one root element and up to MaxChildren pieces of      *)
(* content in it.                                                           *)
(***************************************************************************)
MaxChildren == 3

HtmlPieces ==
    << <<"A", " ">>,
       <<" ", "C">>,
       <<"&", "n", "b", "s", "p", ";">>,
       <<" ">>,
       <<"<", "a", " ", "h", "r", "e", "f", "=", "\"", "x", "\"", ">", "B", "<", "/", "a", ">">>,
       <<"<", "b", "r", ">">>,
       <<"<", "b", "r", "/", ">">>,
       <<"<", "s", "p", "a", "n", ">", "D", "<", "/", "s", "p", "a", "n", ">">> >>

TextPieces == {1, 2, 3, 4}

InlinePieces == {5, 8}

VoidPieces == {6, 7}

RootTags == {<<"p">>, <<"h", "1">>}

Preambles == {<<>>, <<"<", "!", "D", "O", "C", "T", "Y", "P", "E", " ", "h", "t", "m", "l", ">", "\n">>}

InnerSizes == {Size_new(140, 140), Size_new(440, 440)}

RECURSIVE RenderItems(_)
RenderItems(items) ==
    IF items = <<>> THEN <<>>
    ELSE HtmlPieces[Head(items)] \o RenderItems(Tail(items))

RenderRoot(sh) ==
    <<"<">> \o sh.root \o <<">">> \o RenderItems(sh.items)
          \o <<"<", "/">> \o sh.root \o <<">">>

Render(sh) ==
    sh.pre
    \o (IF sh.wrapper
        THEN <<"<", "h", "t", "m", "l", ">", "<", "b", "o", "d", "y", ">">> \o RenderRoot(sh) \o <<"<", "/", "b", "o", "d", "y", ">", "<", "/", "h", "t", "m", "l", ">">>
        ELSE RenderRoot(sh))
    \o (IF sh.pre = <<>> THEN <<>> ELSE <<"\n">>)

HtmlShapes ==
    UNION { [pre : Preambles, wrapper : BOOLEAN, root : RootTags,
             items : [1..n -> DOMAIN HtmlPieces]] : n \in 0..MaxChildren }

InitHtml ==
    /\ pc = "start"
    /\ shape \in HtmlShapes
    /\ source = Render(shape)
    /\ parsed = Panic
    /\ document = Panic
    /\ viewport = Size_new(0, 0)
    /\ layout = Panic
    /\ mouse_position = Position_new(0, 0)
    /\ hit = <<>>
    /\ scroll_y = 0
    /\ focused_on_toolbar = FALSE
    /\ toolbar = Toolbar_new

\* main: from_file hands the text to parse_html
Parse ==
    /\ pc = "start"
    /\ parsed' = parse_html(source)
    /\ pc' = IF parsed'.ok THEN "parsed" ELSE "aborted"
    /\ UNCHANGED <<shape, source, document, viewport, layout, mouse_position, hit,
                 scroll_y, focused_on_toolbar, toolbar>>

\* Window::render: set_elements makes the document and attaches the styles
SetElements ==
    /\ pc = "parsed"
    /\ document' = Document_parse_inline_css(parsed.val)
    /\ pc' = IF document'.ok THEN "ready" ELSE "aborted"
    /\ UNCHANGED <<shape, source, parsed, viewport, layout, mouse_position, hit,
                 scroll_y, focused_on_toolbar, toolbar>>

\* a redraw: render_current_page lays the page out again in the inner size
\* the window has by then
UpdatePageLayout ==
    /\ pc \in {"ready", "laid_out"}
    /\ \E inner_size \in InnerSizes :
          /\ viewport' = inner_size
          /\ layout' = update_page_layout(document.val, inner_size)
    /\ pc' = IF layout'.ok THEN "laid_out" ELSE "aborted"
    /\ UNCHANGED <<shape, source, parsed, document, mouse_position, hit,
                 scroll_y, focused_on_toolbar, toolbar>>

NextHtml == Parse \/ SetElements \/ UpdatePageLayout

SpecHtml == InitHtml /\ [][NextHtml]_vars

(***************************************************************************)
(* What the properties below read off a state of SpecHtml                   *)
(***************************************************************************)
\* the root element of the document in the parse result
RootElement ==
    IF shape.wrapper THEN parsed.val[1].children[1].children[1]
    ELSE parsed.val[1]

\* the elements of a child list and below it, at any depth
RECURSIVE Descendants(_)
Descendants(elements) ==
    UNION {{elements[i]} \cup Descendants(elements[i].children) :
               i \in DOMAIN elements}

PlainTexts == {e \in Descendants(parsed.val) : e.element_type = "PlainText"}

\* the text run that opens the content of the root: its pieces up to the
\* first element
RECURSIVE LeadingRun(_)
LeadingRun(items) ==
    IF items = <<>> \/ Head(items) \notin TextPieces THEN <<>>
    ELSE HtmlPieces[Head(items)] \o LeadingRun(Tail(items))

SentenceWords(sentence) ==
    [i \in DOMAIN sentence.words |-> sentence.words[i].word]

ParagraphWords(paragraph) ==
    Concat([i \in DOMAIN paragraph.sentences |->
               SentenceWords(paragraph.sentences[i])])

\* the word each piece of content stands for
PieceWord(piece) ==
    CASE piece = 1 -> <<"A">>
      [] piece = 2 -> <<"C">>
      [] piece = 5 -> <<"B">>
      [] piece = 8 -> <<"D">>

\* content that opens with text and in which text and inline children
\* (a, span) take turns, as in `A <a href="x">B</a> C`
InlineMergeItems(items) ==
    /\ items # <<>>
    /\ Head(items) \in {1, 2}
    /\ \A i \in DOMAIN items : items[i] \in {1, 2, 5, 8}
    /\ \A i \in 1..(Len(items) - 1) :
          ~(items[i] \in TextPieces /\ items[i + 1] \in TextPieces)

(***************************************************************************)
(* C1.  Inline merge: a parent whose content is text and inline children   *)
(* (a, span) in turn is laid out as exactly one paragraph whose words are   *)
(* the words of the content in source order, text that follows an inline    *)
(* child included; the words of an a carry its href and the link colour.    *)
(* For `<p>A <a href="x">B</a> C</p>` these are "A", "B", "C".              *)
(***************************************************************************)
C1_InlineMerge ==
    (pc = "laid_out" /\ InlineMergeItems(shape.items)) =>
        /\ Len(layout.val.paragraphs) = 1
        /\ ParagraphWords(layout.val.paragraphs[1])
              = [i \in DOMAIN shape.items |-> PieceWord(shape.items[i])]
        /\ \A i \in DOMAIN layout.val.paragraphs[1].sentences :
              LET sentence == layout.val.paragraphs[1].sentences[i] IN
              SentenceWords(sentence) = <<<<"B">>>> =>
                  /\ sentence.href = Some(<<"x">>)
                  /\ sentence.text_color = Some(Color_blue)

\* `<p>A <a href="x">B</a> C</p>` in a body is laid out with the words "A"
\* and "B" alone
C1_TrailingTextLost ==
    /\ pc = "laid_out"
    /\ shape.items = <<1, 5, 2>>
    /\ Len(layout.val.paragraphs) = 1
    /\ ParagraphWords(layout.val.paragraphs[1]) = <<<<"A">>, <<"B">>>>

(***************************************************************************)
(* C3.  Void elements: a br written `<br>` or `<br/>` is parsed into an     *)
(* element with no children, no closing tag is consumed or required, and    *)
(* neither form is a fatal error.                                           *)
(***************************************************************************)
C3_VoidElements ==
    (pc # "start" /\ shape.items # <<>>
         /\ \A i \in DOMAIN shape.items : shape.items[i] \in VoidPieces) =>
        /\ parsed.ok
        /\ Len(RootElement.children) = Len(shape.items)
        /\ \A i \in DOMAIN RootElement.children :
              /\ RootElement.children[i].element_type = "Br"
              /\ RootElement.children[i].children = <<>>

\* a document whose only content is `<br/>` aborts the parse
C3_TrailingSlashAborts ==
    /\ pc = "aborted"
    /\ shape.items = <<7>>
    /\ ~parsed.ok

(***************************************************************************)
(* C4.  As stated: in every child list of the parse result, at any depth,   *)
(* no PlainText has an inner_text that is empty or only white space, and    *)
(* every PlainText inner_text is trimmed.                                   *)
(***************************************************************************)
C4_TrimmedText ==
    (pc # "start" /\ parsed.ok) =>
        \A e \in PlainTexts :
            /\ e.inner_text # <<>>
            /\ \E i \in DOMAIN e.inner_text : ~is_whitespace(e.inner_text[i])
            /\ trim(e.inner_text) = e.inner_text

(***************************************************************************)
(* C4, amended.  In every child list of the parse result, at any depth, no  *)
(* PlainText has an empty inner_text; an inner_text starts (ends) with      *)
(* white space only where its text run, trimmed, starts (ends) with the     *)
(* entity &nbsp;, whose space is put in after the trimming.  A run without  *)
(* the entity gives a trimmed text that is not only white space.            *)
(***************************************************************************)
C4_TrimmedBeforeEntities ==
    (pc # "start" /\ parsed.ok) =>
        \A e \in PlainTexts :
            LET run == IF RootElement.children # <<>>
                          /\ e = Head(RootElement.children)
                       THEN trim(LeadingRun(shape.items))
                       ELSE <<>>
            IN  /\ e.inner_text # <<>>
                /\ is_whitespace(Head(e.inner_text)) => starts_with(run, Nbsp)
                /\ is_whitespace(e.inner_text[Len(e.inner_text)])
                      => ends_with(run, Nbsp)

\* the run `&nbsp;` alone gives a PlainText of one space; the run ` ` alone
\* gives none
C4_EntityOnlyRun ==
    /\ pc = "parsed"
    /\ shape.items = <<3, 6, 4>>
    /\ Len(RootElement.children) = 2
    /\ RootElement.children[1]
          = Element_new_with_text("PlainText", <<" ">>)
    /\ RootElement.children[2].inner_text = <<>>

(***************************************************************************)
(* C5.  A text run with the entity &nbsp; gives a text node whose           *)
(* inner_text has a space at each place an entity stood and no &nbsp; left, *)
(* the entity being first, last or alone in the run included.  The i-th     *)
(* character of the trimmed run, where an entity starts, is the space at    *)
(* i less five for each entity before it; nothing else changes length.      *)
(***************************************************************************)
EntityStarts(run) ==
    {i \in DOMAIN run : starts_with(SubSeq(run, i, Len(run)), Nbsp)}

C5_EntitySpaces ==
    (pc # "start" /\ parsed.ok) =>
        /\ \A e \in Descendants(parsed.val) :
              EntityStarts(e.inner_text) = {}
        /\ LET run == trim(LeadingRun(shape.items)) IN
           run # <<>> =>
              /\ RootElement.children # <<>>
              /\ LET e == Head(RootElement.children) IN
                 /\ e.element_type = "PlainText"
                 /\ Len(e.inner_text)
                       = Len(run) - 5 * Cardinality(EntityStarts(run))
                 /\ \A i \in EntityStarts(run) :
                       e.inner_text[i - 5 * Cardinality(
                           {j \in EntityStarts(run) : j < i})] = " "

\* the run `&nbsp; C` gives the text of two spaces and C
C5_EntityFirst ==
    /\ pc = "parsed"
    /\ shape.items = <<3, 2>>
    /\ Head(RootElement.children).inner_text = <<" ", " ", "C">>

(***************************************************************************)
(* C10.  A well-formed document with one root (a DOCTYPE or none, white     *)
(* space around it or none, one balanced root element) parses to exactly    *)
(* one top-level element, which has the tag of the root.                    *)
(***************************************************************************)
C10_SingleRoot ==
    pc # "start" =>
        /\ parsed.ok
        /\ Len(parsed.val) = 1
        /\ parsed.val[1].element_type
              = IF shape.wrapper THEN "Html"
                ELSE Tag_from_string(shape.root).tag

\* a well-formed document with `<br/>` in its root aborts the parse
C10_WellFormedAborts ==
    /\ pc = "aborted"
    /\ shape.wrapper
    /\ shape.pre # <<>>
    /\ shape.items = <<1, 7>>
    /\ ~parsed.ok

(***************************************************************************)
(* The style texts under test: a value list of up to MaxTokens tokens, or   *)
(* the text of a style attribute with up to MaxDeclarations declarations.   *)
(***************************************************************************)
MaxTokens == 3

MaxDeclarations == 3

CssTokens ==
    << <<"5", "0", "p", "x">>, <<"1", "2", "p", "t">>, <<"2", ".", "5", "e", "m">>, <<"1", "0", "%">>, <<"#", "f", "f", "0", "0", "0", "0">>, <<"w", "h", "i", "t", "e">>,
       <<"s", "o", "l", "i", "d">>, <<"7">>, <<"r", "e", "d">> >>

CssDeclarations ==
    << [property |-> <<"w", "i", "d", "t", "h">>, colon |-> <<":", " ">>, value |-> <<"5", "0", "p", "x">>],
       [property |-> <<"f", "o", "n", "t", "-", "s", "i", "z", "e">>, colon |-> <<":">>, value |-> <<"1", "2", "p", "t">>],
       [property |-> <<"b", "a", "c", "k", "g", "r", "o", "u", "n", "d", "-", "c", "o", "l", "o", "r">>, colon |-> <<":", " ">>,
        value |-> <<"#", "f", "f", "0", "0", "0", "0">>],
       [property |-> <<"b", "o", "g", "u", "s">>, colon |-> <<":", " ">>, value |-> <<"7">>],
       [property |-> <<"b", "o", "r", "d", "e", "r">>, colon |-> <<":", " ">>,
        value |-> <<"1", "p", "x", " ", "s", "o", "l", "i", "d", " ", "#", "f", "f", "0", "0", "0", "0">>],
       [property |-> <<"c", "o", "l", "o", "r">>, colon |-> <<":", " ">>, value |-> <<"r", "e", "d">>],
       [property |-> <<"b", "o", "r", "d", "e", "r", "-", "c", "o", "l", "o", "r">>, colon |-> <<":">>,
        value |-> <<"#", "f", "f", "0", "0", "0", "0", " ", "#", "0", "0", "f", "f", "0", "0">>] >>

Separators == {<<";">>, <<";", " ">>}

RECURSIVE Join(_, _)
Join(texts, separator) ==
    IF texts = <<>> THEN <<>>
    ELSE IF Len(texts) = 1 THEN Head(texts)
    ELSE Head(texts) \o separator \o Join(Tail(texts), separator)

RenderValue(sh) ==
    Join([i \in DOMAIN sh.tokens |-> CssTokens[sh.tokens[i]]], <<" ">>) \o <<";">>

RenderDeclaration(d) == d.property \o d.colon \o d.value

RenderStyle(sh) ==
    Join([i \in DOMAIN sh.declarations |->
             RenderDeclaration(CssDeclarations[sh.declarations[i]])],
         sh.separator)

ValueShapes ==
    UNION { [kind : {"value"}, tokens : [1..n -> DOMAIN CssTokens]] :
                n \in 1..MaxTokens }

StyleShapes ==
    UNION { [kind : {"style"}, separator : Separators,
             declarations : [1..n -> DOMAIN CssDeclarations]] :
                n \in 0..MaxDeclarations }

InitCss ==
    /\ pc = "start"
    /\ shape \in ValueShapes \cup StyleShapes
    /\ source = IF shape.kind = "value" THEN RenderValue(shape)
                ELSE RenderStyle(shape)
    /\ parsed = Panic
    /\ document = Panic
    /\ viewport = Size_new(0, 0)
    /\ layout = Panic
    /\ mouse_position = Position_new(0, 0)
    /\ hit = <<>>
    /\ scroll_y = 0
    /\ focused_on_toolbar = FALSE
    /\ toolbar = Toolbar_new

\* parse_block, at a declaration's value: parse_css_value reads it
ParseValue ==
    /\ pc = "start"
    /\ shape.kind = "value"
    /\ parsed' = parse_css_value(source)
    /\ pc' = IF parsed'.ok THEN "parsed" ELSE "aborted"
    /\ UNCHANGED <<shape, source, document, viewport, layout, mouse_position, hit,
                 scroll_y, focused_on_toolbar, toolbar>>

\* the text of a style attribute is handed to parse_inline_css
ParseStyle ==
    /\ pc = "start"
    /\ shape.kind = "style"
    /\ parsed' = parse_inline_css(source)
    /\ pc' = IF parsed'.ok THEN "parsed" ELSE "aborted"
    /\ UNCHANGED <<shape, source, document, viewport, layout, mouse_position, hit,
                 scroll_y, focused_on_toolbar, toolbar>>

NextCss == ParseValue \/ ParseStyle

SpecCss == InitCss /\ [][NextCss]_vars

\* the rule a declaration of a known property stands for
DeclarationRule(d) ==
    CASE d = 1 -> <<[rule |-> "Width", arg |-> [name |-> "Px", n |-> <<50>>]]>>
      [] d = 2 -> <<[rule |-> "FontSize",
                     arg |-> [name |-> "Pt", n |-> <<12>>]]>>
      [] d = 3 -> <<[rule |-> "BackgroundColor",
                     arg |-> [name |-> "Hex", n |-> <<255, 0, 0>>]]>>
      [] OTHER -> <<>>

KnownRules(declarations) ==
    Concat([i \in DOMAIN declarations |-> DeclarationRule(declarations[i])])

\* the value of the declaration is one that parse_css_value reads to its ';'
ValueAccepted(d) == parse_css_value(CssDeclarations[d].value \o <<";">>).ok

(***************************************************************************)
(* C8.  As stated: a declaration with a property that is none of width,     *)
(* margin-left, background-color, font-size gives no rule and the parse     *)
(* goes on: the declarations before and after it give their rules in source *)
(* order, and the parse does not abort because of that declaration.         *)
(***************************************************************************)
C8_UnknownPropertyTolerated ==
    (pc # "start" /\ shape.kind = "style") =>
        /\ parsed.ok
        /\ parsed.val = KnownRules(shape.declarations)

(***************************************************************************)
(* C8, amended.  The value of a declaration is read before its property is  *)
(* looked at.  A declaration with an unknown property whose value the       *)
(* value parser reads gives no rule, and the declarations before and after  *)
(* it give their rules in source order; a declaration whose value the       *)
(* value parser does not read aborts the parse, its property known or not.  *)
(***************************************************************************)
C8_UnknownPropertySkipped ==
    (pc # "start" /\ shape.kind = "style") =>
        IF \A i \in DOMAIN shape.declarations :
               ValueAccepted(shape.declarations[i])
        THEN parsed.ok /\ parsed.val = KnownRules(shape.declarations)
        ELSE ~parsed.ok

\* `width: 50px; border: 1px solid #ff0000; font-size:12pt` gives the rules
\* of width and font-size
C8_BorderBetweenRules ==
    /\ pc = "parsed"
    /\ shape.kind = "style"
    /\ shape.declarations = <<1, 5, 2>>
    /\ parsed.val = DeclarationRule(1) \o DeclarationRule(2)

\* the value every token stands for; `red` is no value
TokenValue(t) ==
    CASE t = 1 -> Unit("Px", <<50>>)
      [] t = 2 -> Unit("Pt", <<12>>)
      [] t = 3 -> Unit("Em", <<25, 1>>)
      [] t = 4 -> Unit("Percentage", <<10>>)
      [] t = 5 -> Color("Hex", <<255, 0, 0>>)
      [] t = 6 -> Color("White", <<>>)
      [] t = 7 -> Keyword("BorderStyle", "Solid")
      [] t = 8 -> [kind |-> "Number", arg |-> [name |-> "Number", n |-> <<7>>]]

(***************************************************************************)
(* C9.  Every token of a value list is classified, whatever its place in    *)
(* the list: digits and px give Px, digits and pt give Pt, a number and em  *)
(* give Em, an integer and % give Percentage, #rrggbb gives Hex(rr, gg, bb),*)
(* a keyword its variant, an integer Number; any other token aborts.        *)
(***************************************************************************)
C9_TokensClassified ==
    (pc # "start" /\ shape.kind = "value") =>
        IF \E i \in DOMAIN shape.tokens : shape.tokens[i] = 9
        THEN ~parsed.ok
        ELSE /\ parsed.ok
             /\ parsed.val = [i \in DOMAIN shape.tokens |->
                                 TokenValue(shape.tokens[i])]

\* in `solid #ff0000;` the colour is read as Black
C9_HexAfterTokenIsBlack ==
    /\ pc = "parsed"
    /\ shape.kind = "value"
    /\ shape.tokens = <<7, 5>>
    /\ parsed.val = <<Keyword("BorderStyle", "Solid"), Color("Black", <<>>)>>

(***************************************************************************)
(* The paragraphs under test: the definition collect_definition makes of    *)
(* a text and of up to MaxSentences - 1 inline children after it, compiled  *)
(* for a viewport.                                                          *)
(***************************************************************************)
MaxSentences == 2

SentenceTexts ==
    << <<"A">>, <<"C", "C">>, <<"A", " ", "B">>, <<"B", " ", "C", "C">>, <<"A", " ", " ", "B">>, <<"C", "C", " ", "A", " ", "B">> >>

ParagraphTags == {"Paragraph", "H1"}

ViewportWidths == {25, 75, 100, 150, 400}

\* the definition of the text, with the sentences of the inline children
\* joined to it as connect_paragraphs joins them
RECURSIVE DefinitionOfTexts(_, _)
DefinitionOfTexts(tag, texts) ==
    IF Len(texts) = 1
    THEN ParagraphDefinition_from_string(
             Element_new(tag),
             SentenceTexts[texts[1]])
    ELSE [DefinitionOfTexts(tag, SubSeq(texts, 1, Len(texts) - 1)) EXCEPT
             !.sentences = @ \o ParagraphDefinition_from_string(
                                    Element_new("Span"),
                                    SentenceTexts[texts[Len(texts)]]).sentences]

ParagraphShapes ==
    UNION { [kind : {"paragraph"}, tag : ParagraphTags,
             texts : [1..n -> DOMAIN SentenceTexts]] : n \in 1..MaxSentences }

InitParagraph ==
    /\ pc = "start"
    /\ shape \in ParagraphShapes
    /\ source = <<>>
    /\ parsed = Panic
    /\ document = DefinitionOfTexts(shape.tag, shape.texts)
    /\ viewport = Size_new(0, 0)
    /\ layout = Panic
    /\ mouse_position = Position_new(0, 0)
    /\ hit = <<>>
    /\ scroll_y = 0
    /\ focused_on_toolbar = FALSE
    /\ toolbar = Toolbar_new

\* Layout::from_body compiles the definition for the viewport of the redraw
Compile ==
    /\ pc \in {"start", "compiled"}
    /\ \E width \in ViewportWidths :
          /\ viewport' = Size_new(width, width)
          /\ layout' = ParagraphDefinition_compile(document, viewport')
    /\ pc' = "compiled"
    /\ UNCHANGED <<shape, source, parsed, document, mouse_position, hit,
                 scroll_y, focused_on_toolbar, toolbar>>

NextParagraph == Compile

SpecParagraph == InitParagraph /\ [][NextParagraph]_vars

\* the words of the definition, and the words placed, in input order
DefinitionWords(definition) ==
    Concat([i \in DOMAIN definition.sentences |-> definition.sentences[i].words])

PlacedWords(paragraph) ==
    Concat([i \in DOMAIN paragraph.sentences |-> paragraph.sentences[i].words])

\* the x of word i when no word before it wrapped: the widths before it
\* and a gap of 10 after each
RECURSIVE CursorBefore(_, _, _)
CursorBefore(words, i, font_size) ==
    IF i = 1 THEN 0
    ELSE CursorBefore(words, i - 1, font_size)
         + get_word_width(words[i - 1], font_size) + 10

\* the words that would pass the viewport's width from where they stand
\* when nothing before them wrapped
PassingWords(words, font_size, width) ==
    {i \in DOMAIN words :
        CursorBefore(words, i, font_size) + get_word_width(words[i], font_size)
            > width}

(***************************************************************************)
(* C6.  Greedy word wrap: from the cursor (0, 0), with a gap of 10 after    *)
(* each word, the first word k whose x and width pass the viewport's width  *)
(* is placed at x = 0, one line height down; every word before k is on the  *)
(* line y = 0, at an x that grows strictly in input order.                  *)
(***************************************************************************)
C6_GreedyWrap ==
    pc = "compiled" =>
        LET words  == DefinitionWords(document)
            placed == PlacedWords(layout)
            over   == PassingWords(words, document.font_size, viewport.width)
            first  == {k \in over : \A i \in over : k <= i}
        IN  /\ Len(placed) = Len(words)
            /\ \A i \in DOMAIN words :
                  (\A k \in over : i < k) =>
                      /\ placed[i].word = words[i]
                      /\ placed[i].position
                            = Position_new(
                                  CursorBefore(words, i, document.font_size), 0)
                      /\ i > 1 => placed[i - 1].position.x < placed[i].position.x
            /\ \A k \in first :
                  /\ placed[k].word = words[k]
                  /\ placed[k].position
                        = Position_new(0, get_glyph_height(document.font_size))

\* of `A B` and `CC` in a viewport 100 wide, A and B stay on the first line
\* and CC, which would end at 145, opens the second
C6_ThirdWordWraps ==
    /\ pc = "compiled"
    /\ shape.tag = "Paragraph"
    /\ shape.texts = <<3, 2>>
    /\ viewport.width = 100
    /\ [i \in 1..3 |-> PlacedWords(layout)[i].position]
          = <<Position_new(0, 0), Position_new(35, 0), Position_new(0, 44)>>

(***************************************************************************)
(* The tables under test: up to MaxRows rows of up to MaxCells cells of     *)
(* one word each.                                                           *)
(***************************************************************************)
MaxRows == 2

MaxCells == 2

CellTexts == << <<"A">>, <<"B">>, <<"C">>, <<"D">> >>

\* an element as it is after set_elements: without a style attribute it has
\* no rules
Styled(tag, children) ==
    [element_type |-> tag, children |-> children, inner_text |-> <<>>,
     attributes |-> {}, inner_styles |-> <<>>]

TableElement(rows) ==
    Styled("Table",
        [r \in DOMAIN rows |->
            Styled("Tr",
                [c \in DOMAIN rows[r] |->
                    Styled("Td",
                        << [Styled("PlainText", <<>>) EXCEPT
                               !.inner_text = CellTexts[rows[r][c]]] >>)])])

RowShapes == UNION { [1..n -> DOMAIN CellTexts] : n \in 1..MaxCells }

TableShapes ==
    UNION { [kind : {"table"}, rows : [1..n -> RowShapes]] : n \in 1..MaxRows }

InitTable ==
    /\ pc = "start"
    /\ shape \in TableShapes
    /\ source = <<>>
    /\ parsed = Ok(<<TableElement(shape.rows)>>, <<>>)
    /\ document = Panic
    /\ viewport = Size_new(0, 0)
    /\ layout = Panic
    /\ mouse_position = Position_new(0, 0)
    /\ hit = <<>>
    /\ scroll_y = 0
    /\ focused_on_toolbar = FALSE
    /\ toolbar = Toolbar_new

\* collect_definition at a table child: TableDefinition::from_element
CollectTable ==
    /\ pc = "start"
    /\ document' = TableDefinition_rows(Ok(<<>>, <<>>), parsed.val[1].children)
    /\ pc' = IF document'.ok THEN "collected" ELSE "aborted"
    /\ UNCHANGED <<shape, source, parsed, viewport, layout, mouse_position, hit,
                 scroll_y, focused_on_toolbar, toolbar>>

\* Layout::from_body at a table definition: TableDefinition::compile
CompileTable ==
    /\ pc = "collected"
    /\ \E inner_size \in InnerSizes :
          /\ viewport' = inner_size
          /\ layout' = TableDefinition_compile([rows |-> document.val], inner_size)
    /\ pc' = "compiled"
    /\ UNCHANGED <<shape, source, parsed, document, mouse_position, hit,
                 scroll_y, focused_on_toolbar, toolbar>>

NextTable == CollectTable \/ CompileTable

SpecTable == InitTable /\ [][NextTable]_vars

\* the rendered width of the cell of row r in column c
CellWidth(r, c) == ParagraphDefinition_get_width(document.val[r].values[c])

RowsWithColumn(c) ==
    {r \in DOMAIN document.val : c <= Len(document.val[r].values)}

\* the greatest width of a cell of column c
ColumnMax(c) ==
    CHOOSE w \in {CellWidth(r, c) : r \in RowsWithColumn(c)} :
        \A r \in RowsWithColumn(c) : CellWidth(r, c) <= w

\* where the paragraph of the cell of row r in column c is among the
\* paragraphs of the compiled table
RECURSIVE CellIndex(_, _)
CellIndex(r, c) ==
    IF r = 1 THEN c ELSE Len(document.val[r - 1].values) + CellIndex(r - 1, c)

(***************************************************************************)
(* C2.  The width of column c is the greatest rendered width of the cells   *)
(* of column c over the rows that have one (the cells 50, 80 and 60, 40     *)
(* wide give the columns 60 and 80), and the cell of column c stands at     *)
(* the sum of the widths of the columns before c, in every row.             *)
(***************************************************************************)
C2_ColumnMax ==
    pc = "compiled" =>
        /\ table_column_widths(<<>>, document.val)
              = [c \in 1..Len(table_column_widths(<<>>, document.val)) |->
                    ColumnMax(c)]
        /\ \A r \in DOMAIN document.val :
              \A c \in DOMAIN document.val[r].values :
                  PlacedWords(layout.paragraphs[CellIndex(r, c)])[1].position.x
                      = SumTo([j \in 1..(c - 1) |-> ColumnMax(j)], c - 1)

\* the rows A, B and C, D, of the cell widths 50, 80 and 60, 40, give the
\* column widths 60 and 40
C2_LastRowWins ==
    /\ pc = "compiled"
    /\ shape.rows = <<<<1, 2>>, <<3, 4>>>>
    /\ [r \in 1..2 |-> [c \in 1..2 |-> CellWidth(r, c)]]
          = <<<<50, 80>>, <<60, 40>>>>
    /\ table_column_widths(<<>>, document.val) = <<60, 40>>

(***************************************************************************)
(* The hit tests under test: a sentence of up to MaxWords words in the      *)
(* layout, and the cursor at a point of the window.                         *)
(***************************************************************************)
MaxWords == 2

MaxCoordinate == 5

WordBoxes ==
    [word : {<<"A">>}, position : [x : {1, 2}, y : {1}],
     width : {0, 2}, height : {1, 2}]

SentenceShapes ==
    UNION { [kind : {"sentence"}, words : [1..n -> WordBoxes]] :
                n \in 0..MaxWords }

LayoutOfSentence(words) ==
    [paragraphs |->
        << [sentences |-> << [words |-> words, href |-> Some(<<"x">>),
                              text_color |-> Some(Color_blue)] >>,
            height |-> get_glyph_height(DEFAULT_FONT_SIZE),
            font_size |-> DEFAULT_FONT_SIZE,
            background_color |-> None] >>]

InitHit ==
    /\ pc = "laid_out"
    /\ shape \in SentenceShapes
    /\ source = <<>>
    /\ parsed = Panic
    /\ document = Panic
    /\ viewport = Size_new(0, 0)
    /\ layout = Ok(LayoutOfSentence(shape.words), <<>>)
    /\ mouse_position = Position_new(0, 0)
    /\ hit = <<>>
    /\ scroll_y = 0
    /\ focused_on_toolbar = FALSE
    /\ toolbar = Toolbar_new

\* Window::update_cursor: the position is kept and every sentence of the
\* layout is asked whether the position is inside it
CursorMoved ==
    /\ pc \in {"laid_out", "moved"}
    /\ \E x \in 0..MaxCoordinate, y \in 0..MaxCoordinate :
          /\ mouse_position' = Position_new(x, y)
          /\ hit' = LET sentence == layout.val.paragraphs[1].sentences[1] IN
                    [words |-> [i \in DOMAIN sentence.words |->
                                   Word_is_position_inside(sentence.words[i],
                                                           x, y)],
                     sentence |-> Sentence_is_position_inside(sentence, x, y)]
    /\ pc' = "moved"
    /\ UNCHANGED <<shape, source, parsed, document, viewport, layout,
                 scroll_y, focused_on_toolbar, toolbar>>

NextHit == CursorMoved

SpecHit == InitHit /\ [][NextHit]_vars

\* the point is in the box of the word, the four edges included
InBox(word, point) ==
    /\ word.position.x <= point.x
    /\ point.x <= word.position.x + word.width
    /\ word.position.y <= point.y
    /\ point.y <= word.position.y + word.height

(***************************************************************************)
(* C7.  Word::is_position_inside(x, y) is true exactly for the points with  *)
(* word.x <= x <= word.x + width and word.y <= y <= word.y + height, the    *)
(* four edges included, and so false one pixel beyond an edge;              *)
(* Sentence::is_position_inside is true exactly when a word of the          *)
(* sentence has the point inside, and false for a sentence without words.   *)
(***************************************************************************)
C7_InclusiveBox ==
    pc = "moved" =>
        /\ \A i \in DOMAIN shape.words :
              hit.words[i] = InBox(shape.words[i], mouse_position)
        /\ hit.sentence
              = (\E i \in DOMAIN shape.words :
                    InBox(shape.words[i], mouse_position))

\* the cursor on the right and bottom corner of a word is inside it, and
\* one pixel to the right of it is outside
C7_CornerInside ==
    /\ pc = "moved"
    /\ Len(shape.words) = 1
    /\ mouse_position
          = Position_new(
                shape.words[1].position.x + shape.words[1].width,
                shape.words[1].position.y + shape.words[1].height)
    /\ shape.words[1].width = 2
    /\ hit.words[1]
    /\ hit.sentence

(***************************************************************************)
(* The element names under test: the keywords of Tag::from_string and       *)
(* names next to them, each converted on its own and parsed as the name of  *)
(* an element written in one of three forms.                                *)
(***************************************************************************)
\* the tag set of the specification: keyword and variant
SupportedTags ==
    << <<<<"h", "1">>, "H1">>, <<<<"d", "i", "v">>, "Div">>, <<<<"b", "o", "d", "y">>, "Body">>,
       <<<<"h", "t", "m", "l">>, "Html">>, <<<<"p">>, "Paragraph">>, <<<<"t", "i", "t", "l", "e">>, "Title">>,
       <<<<"m", "e", "t", "a">>, "Meta">>, <<<<"l", "i", "n", "k">>, "Link">>, <<<<"h", "e", "a", "d">>, "Head">>,
       <<<<"s", "p", "a", "n">>, "Span">>, <<<<"c", "e", "n", "t", "e", "r">>, "Center">>, <<<<"i", "n", "p", "u", "t">>, "Input">>,
       <<<<"t", "a", "b", "l", "e">>, "Table">>, <<<<"s", "c", "r", "i", "p", "t">>, "Script">>,
       <<<<"h", "e", "a", "d", "e", "r">>, "Header">>, <<<<"f", "o", "r", "m">>, "Form">>, <<<<"i", "m", "g">>, "Img">>,
       <<<<"l", "i">>, "Li">>, <<<<"t", "d">>, "Td">>, <<<<"u", "l">>, "Ul">>, <<<<"b", "r">>, "Br">>,
       <<<<"t", "r">>, "Tr">>, <<<<"a">>, "A">>, <<<<"b">>, "B">>, <<<<"u">>, "U">> >>

Keywords == {SupportedTags[i][1] : i \in DOMAIN SupportedTags}

VariantOf(keyword) ==
    SupportedTags[CHOOSE i \in DOMAIN SupportedTags :
                      SupportedTags[i][1] = keyword][2]

\* names outside the set: further heading levels, upper case, a prefix and
\* an extension of a keyword, another element, the empty name
OtherNames ==
    {<<"h", "2">>, <<"h", "6">>, <<"P">>, <<"D", "i", "v">>, <<"t", "a", "b", "l">>, <<"t", "a", "b", "l", "e", "s">>, <<"s", "t", "r", "o", "n", "g">>, <<>>}

ElementForms == {"balanced", "self_closing", "with_text"}

RenderElement(name, form) ==
    CASE form = "balanced" -> <<"<">> \o name \o <<">", "<", "/">> \o name \o <<">">>
      [] form = "self_closing" -> <<"<">> \o name \o <<"/", ">">>
      [] form = "with_text" -> <<"<">> \o name \o <<">", "A", "<", "/">> \o name \o <<">">>

TagShapes == [kind : {"tag"}, name : Keywords \cup OtherNames, form : ElementForms]

InitTag ==
    /\ pc = "start"
    /\ shape \in TagShapes
    /\ source = RenderElement(shape.name, shape.form)
    /\ parsed = Panic
    /\ document = Panic
    /\ viewport = Size_new(0, 0)
    /\ layout = Panic
    /\ mouse_position = Position_new(0, 0)
    /\ hit = <<>>
    /\ scroll_y = 0
    /\ focused_on_toolbar = FALSE
    /\ toolbar = Toolbar_new

\* Tag::from_string on the name
FromString ==
    /\ pc = "start"
    /\ parsed' = Tag_from_string(shape.name)
    /\ pc' = "converted"
    /\ UNCHANGED <<shape, source, document, viewport, layout, mouse_position, hit,
                 scroll_y, focused_on_toolbar, toolbar>>

\* parse_html on the element of that name
ParseElement ==
    /\ pc = "start"
    /\ parsed' = parse_html(source)
    /\ pc' = IF parsed'.ok THEN "parsed" ELSE "aborted"
    /\ UNCHANGED <<shape, source, document, viewport, layout, mouse_position, hit,
                 scroll_y, focused_on_toolbar, toolbar>>

NextTag == FromString \/ ParseElement

SpecTag == InitTag /\ [][NextTag]_vars

(***************************************************************************)
(* C11.  Tag::from_string gives every keyword of the tag set its own        *)
(* variant, two keywords never the same one, and an error for every other   *)
(* string; parse_html aborts on an element whose name is not a keyword,     *)
(* and an element that parses has the variant of its name as its tag.       *)
(***************************************************************************)
C11_TagCoverage ==
    /\ pc = "converted" =>
          IF shape.name \in Keywords
          THEN parsed.ok /\ parsed.tag = VariantOf(shape.name)
          ELSE ~parsed.ok
    /\ \A a, b \in Keywords :
          a # b => Tag_from_string(a).tag # Tag_from_string(b).tag
    /\ pc = "aborted" /\ shape.form # "self_closing"
          => shape.name \notin Keywords \/ shape.name \in VoidTags
    /\ pc = "parsed" =>
          /\ shape.name \in Keywords
          /\ Len(parsed.val) = 1
          /\ parsed.val[1].element_type = VariantOf(shape.name)

\* `<h2></h2>`: a heading level outside the tag set aborts the parse
C11_UnknownHeadingAborts ==
    /\ pc = "aborted"
    /\ shape.name = <<"h", "2">>
    /\ shape.form = "balanced"
    /\ ~Tag_from_string(shape.name).ok

(***************************************************************************)
(* The malformed documents under test: a well-formed element with up to     *)
(* MaxFaultItems pieces of content, left whole or given one fault: cut      *)
(* short inside the element, one delimiter of a tag or of an attribute      *)
(* dropped, or closed under another name.                                   *)
(***************************************************************************)
MaxFaultItems == 2

FaultPieces == {1, 5, 6, 8}

\* the places of the delimiters the parser asks for: the '>' of a tag, the
\* '<' and the '/' of a closing tag, the '=' and the quotes of an attribute
DelimiterPositions(s) ==
    {k \in DOMAIN s :
        \/ s[k] \in {">", "=", "\""}
        \/ s[k] = "<" /\ k < Len(s) /\ s[k + 1] = "/"
        \/ s[k] = "/" /\ k > 1 /\ s[k - 1] = "<"}

Drop(s, k) == SubSeq(s, 1, k - 1) \o SubSeq(s, k + 1, Len(s))

WholeElement(root, closing, items) ==
    <<"<">> \o root \o <<">">> \o RenderItems(items) \o <<"<", "/">> \o closing \o <<">">>

FaultsOf(root, items) ==
    LET text == WholeElement(root, root, items) IN
    {[kind |-> "whole", at |-> 0]}
    \cup {[kind |-> "cut", at |-> k] : k \in 1..(Len(text) - 1)}
    \cup {[kind |-> "dropped", at |-> k] : k \in DelimiterPositions(text)}
    \cup {[kind |-> "renamed", at |-> 0]}

RenderFault(root, items, fault) ==
    CASE fault.kind = "whole" -> WholeElement(root, root, items)
      [] fault.kind = "cut" ->
            SubSeq(WholeElement(root, root, items), 1, fault.at)
      [] fault.kind = "dropped" ->
            Drop(WholeElement(root, root, items), fault.at)
      [] fault.kind = "renamed" ->
            WholeElement(root, CHOOSE t \in RootTags : t # root, items)

FaultShapes ==
    UNION { UNION { { [kind |-> "fault", root |-> root, items |-> items,
                       fault |-> fault] : fault \in FaultsOf(root, items) } :
                    items \in [1..n -> FaultPieces] } :
            n \in 0..MaxFaultItems, root \in RootTags }

InitFault ==
    /\ pc = "start"
    /\ shape \in FaultShapes
    /\ source = RenderFault(shape.root, shape.items, shape.fault)
    /\ parsed = Panic
    /\ document = Panic
    /\ viewport = Size_new(0, 0)
    /\ layout = Panic
    /\ mouse_position = Position_new(0, 0)
    /\ hit = <<>>
    /\ scroll_y = 0
    /\ focused_on_toolbar = FALSE
    /\ toolbar = Toolbar_new

\* main: from_file hands the text to parse_html
ParseFault ==
    /\ pc = "start"
    /\ parsed' = parse_html(source)
    /\ pc' = IF parsed'.ok THEN "parsed" ELSE "aborted"
    /\ UNCHANGED <<shape, source, document, viewport, layout, mouse_position, hit,
                 scroll_y, focused_on_toolbar, toolbar>>

NextFault == ParseFault

SpecFault == InitFault /\ [][NextFault]_vars

(***************************************************************************)
(* C12.  parse_html returns a complete tree or aborts: the whole element    *)
(* parses to one root with all its children; a closing tag of another       *)
(* name, a dropped '>' of a tag, a dropped '<' or '/' of a closing tag, an  *)
(* attribute without '=', a quoted value without one of its quotes, and a   *)
(* text that ends inside the element all abort, and an aborted parse        *)
(* returns no tree at all.                                                  *)
(***************************************************************************)
C12_CompleteOrAborted ==
    pc # "start" =>
        /\ shape.fault.kind = "whole" =>
              /\ parsed.ok
              /\ Len(parsed.val) = 1
              /\ parsed.val[1].element_type = VariantOf(shape.root)
              /\ Len(parsed.val[1].children)
                    >= Cardinality({i \in DOMAIN shape.items :
                                       shape.items[i] # 1})
        /\ shape.fault.kind # "whole" => ~parsed.ok
        /\ ~parsed.ok => parsed.val = <<>> /\ pc = "aborted"

\* `<p><a href="x>B</a></p>`: the value of href is never closed
C12_UnterminatedValueAborts ==
    /\ pc = "aborted"
    /\ shape.root = <<"p">>
    /\ shape.items = <<5>>
    /\ shape.fault.kind = "dropped"
    /\ source = <<"<", "p", ">", "<", "a", " ", "h", "r", "e", "f", "=", "\"", "x", ">", "B", "<", "/", "a", ">", "<", "/", "p", ">">>

(***************************************************************************)
(* The bodies under test: up to MaxBlocks children of a body, each a        *)
(* paragraph of one or of three words, a heading, a div with a table or an  *)
(* empty div, laid out by Layout::from_body for a viewport.                 *)
(***************************************************************************)
MaxBlocks == 3

PlainTextOf(text) == [Styled("PlainText", <<>>) EXCEPT !.inner_text = text]

Blocks ==
    << Styled("Paragraph", <<PlainTextOf(<<"A">>)>>),
       Styled("Paragraph", <<PlainTextOf(<<"C", "C", " ", "A", " ", "B">>)>>),
       Styled("H1", <<PlainTextOf(<<"A">>)>>),
       Styled("Div", <<TableElement(<< <<1, 2>>, <<3>> >>)>>),
       Styled("Div", <<>>) >>

FlowWidths == {25, 100, 400}

FlowShapes ==
    UNION { [kind : {"flow"}, blocks : [1..n -> DOMAIN Blocks]] :
               n \in 0..MaxBlocks }

BodyOf(blocks) == Styled("Body", [i \in DOMAIN blocks |-> Blocks[blocks[i]]])

InitFlow ==
    /\ pc = "ready"
    /\ shape \in FlowShapes
    /\ source = <<>>
    /\ parsed = Ok(<<BodyOf(shape.blocks)>>, <<>>)
    /\ document = Panic
    /\ viewport = Size_new(0, 0)
    /\ layout = Panic
    /\ mouse_position = Position_new(0, 0)
    /\ hit = <<>>
    /\ scroll_y = 0
    /\ focused_on_toolbar = FALSE
    /\ toolbar = Toolbar_new

\* Layout::from_body on the body, for the size the viewport has by then
FromBody ==
    /\ pc \in {"ready", "laid_out"}
    /\ \E width \in FlowWidths :
          /\ viewport' = Size_new(width, 400)
          /\ layout' = Layout_from_body(parsed.val[1], viewport')
    /\ pc' = IF layout'.ok THEN "laid_out" ELSE "aborted"
    /\ UNCHANGED <<shape, source, parsed, document, mouse_position, hit,
                 scroll_y, focused_on_toolbar, toolbar>>

NextFlow == FromBody

SpecFlow == InitFlow /\ [][NextFlow]_vars

\* the paragraphs of the body as they are compiled, before the flow moves
\* them
CompiledParagraphs ==
    collect_paragraphs(
        Ok(<<>>, <<>>),
        body_definitions(Ok(<<>>, <<>>), parsed.val[1].children).val,
        viewport).val

\* half the line height at the default font size
FlowSpacing == get_glyph_height(DEFAULT_FONT_SIZE) \div 2

\* Y_i: the heights of the paragraphs before i and a spacing after each
RECURSIVE FlowY(_, _)
FlowY(paragraphs, i) ==
    IF i = 1 THEN 0
    ELSE FlowY(paragraphs, i - 1) + paragraphs[i - 1].height + FlowSpacing

(***************************************************************************)
(* C13.  Outer vertical flow of Layout::from_body: the i-th paragraph of    *)
(* the layout, a flattened table counting as one, is its compiled           *)
(* paragraph moved by (0, Y_i), where Y_1 = 0 and Y_(i+1) = Y_i + the       *)
(* height of paragraph i + the spacing, and the spacing is half the line    *)
(* height at the default font size; the flow changes no x coordinate.       *)
(***************************************************************************)
C13_VerticalFlow ==
    pc = "laid_out" =>
        LET before == CompiledParagraphs
            after == layout.val.paragraphs
        IN  /\ Len(after) = Len(before)
            /\ \A i \in DOMAIN after :
                  /\ after[i].height = before[i].height
                  /\ Len(after[i].sentences) = Len(before[i].sentences)
                  /\ \A s \in DOMAIN after[i].sentences :
                        LET placed == after[i].sentences[s].words
                            compiled == before[i].sentences[s].words
                        IN  /\ Len(placed) = Len(compiled)
                            /\ \A w \in DOMAIN placed :
                                  /\ placed[w].position.x
                                        = compiled[w].position.x
                                  /\ placed[w].position.y
                                        = compiled[w].position.y
                                          + FlowY(before, i)

\* a paragraph of three words, a heading and a table in a viewport every
\* word passes: the paragraph is 176 high, the heading, 176 high too, is
\* moved by 176 + 22 and the table by 198 + 176 + 22
C13_ThreeParagraphs ==
    /\ pc = "laid_out"
    /\ shape.blocks = <<2, 3, 4>>
    /\ viewport.width = 25
    /\ Len(layout.val.paragraphs) = 3
    /\ layout.val.paragraphs[1].height = 176
    /\ layout.val.paragraphs[2].sentences[1].words[1].position
          = Position_new(0, 198 + 88)
    /\ Len(layout.val.paragraphs[3].sentences) = 3
    /\ layout.val.paragraphs[3].sentences[1].words[1].position
          = Position_new(0, 396)

(***************************************************************************)
(* The degenerate viewports under test: a paragraph definition of up to     *)
(* MaxClampSentences sentences, compiled for a width of 1 pixel and for     *)
(* widths of 0 and less.  The text ` A` is what `&nbsp;A` parses to: its    *)
(* first word is empty.                                                     *)
(***************************************************************************)
MaxClampSentences == 2

ClampTexts == << <<"A">>, <<"A", " ", "B">>, <<" ", "A">>, <<" ">>, <<"C", "C", " ", "A", " ", "B">> >>

ClampWidths == {-40, -1, 0, 1}

RECURSIVE ClampDefinition(_, _)
ClampDefinition(tag, texts) ==
    IF Len(texts) = 1
    THEN ParagraphDefinition_from_string(Element_new(tag), ClampTexts[texts[1]])
    ELSE [ClampDefinition(tag, SubSeq(texts, 1, Len(texts) - 1)) EXCEPT
             !.sentences = @ \o ParagraphDefinition_from_string(
                                    Element_new("Span"),
                                    ClampTexts[texts[Len(texts)]]).sentences]

ClampShapes ==
    UNION { [kind : {"clamp"}, tag : ParagraphTags,
             texts : [1..n -> DOMAIN ClampTexts]] : n \in 1..MaxClampSentences }

InitClamp ==
    /\ pc = "start"
    /\ shape \in ClampShapes
    /\ source = <<>>
    /\ parsed = Panic
    /\ document = ClampDefinition(shape.tag, shape.texts)
    /\ viewport = Size_new(0, 0)
    /\ layout = Panic
    /\ mouse_position = Position_new(0, 0)
    /\ hit = <<>>
    /\ scroll_y = 0
    /\ focused_on_toolbar = FALSE
    /\ toolbar = Toolbar_new

\* Layout::from_body hands the viewport it was given to compile as it is
CompileNarrow ==
    /\ pc \in {"start", "compiled"}
    /\ \E width \in ClampWidths :
          /\ viewport' = Size_new(width, 400)
          /\ layout' = ParagraphDefinition_compile(document, viewport')
    /\ pc' = "compiled"
    /\ UNCHANGED <<shape, source, parsed, document, mouse_position, hit,
                 scroll_y, focused_on_toolbar, toolbar>>

NextClamp == CompileNarrow

SpecClamp == InitClamp /\ [][NextClamp]_vars

(***************************************************************************)
(* C14.  A viewport width of zero or less is clamped to 1 pixel before the  *)
(* line wrap: ParagraphDefinition::compile gives for a width <= 0 the       *)
(* paragraph it gives for the width 1.                                      *)
(***************************************************************************)
C14_ClampedWidth ==
    pc = "compiled" /\ viewport.width <= 0 =>
        layout = ParagraphDefinition_compile(document,
                                             Size_new(1, viewport.height))

\* ` A` at the width -1: the empty first word, whose right edge is 0, is
\* taken to the second line, where the width 1 leaves it on the first
C14_EmptyWordWraps ==
    /\ pc = "compiled"
    /\ shape.texts = <<3>>
    /\ shape.tag = "Paragraph"
    /\ viewport.width = -1
    /\ layout.sentences[1].words[1].position = Position_new(0, 44)
    /\ ParagraphDefinition_compile(document, Size_new(1, 400))
          .sentences[1].words[1].position = Position_new(0, 0)

(***************************************************************************)
(* The table cells under test: a table of up to MaxGridRows rows of up to   *)
(* MaxGridCells cells, every cell of one well-formed kind but one, which    *)
(* is of any kind; or one row that is no tr.                                *)
(***************************************************************************)
MaxGridRows == 2

MaxGridCells == 2

\* what a cell holds: a text; a text and a span; a paragraph element;
\* nothing; two texts with a br between; a table; two paragraph elements
CellContents ==
    << <<PlainTextOf(<<"A">>)>>,
       <<PlainTextOf(<<"A">>), Styled("Span", <<PlainTextOf(<<"D">>)>>)>>,
       <<Styled("Paragraph", <<PlainTextOf(<<"A">>)>>)>>,
       <<>>,
       <<PlainTextOf(<<"A">>), Styled("Br", <<>>), PlainTextOf(<<"B">>)>>,
       <<TableElement(<< <<1>> >>)>>,
       <<Styled("Paragraph", <<PlainTextOf(<<"A">>)>>),
         Styled("Paragraph", <<PlainTextOf(<<"B">>)>>)>> >>

\* the kinds of cell that reduce to exactly one paragraph definition
OneParagraphCells == {1, 2, 3}

\* the faults that are no cell content: a div where a td is asked for, a
\* div where a tr is asked for
NotTd == Len(CellContents) + 1

NotTr == Len(CellContents) + 2

GridShapes ==
    UNION { [kind : {"grid"}, rows : {r}, cells : {c},
             others : OneParagraphCells,
             row : 1..r, cell : 1..c, probe : 1..NotTr] :
               r \in 1..MaxGridRows, c \in 1..MaxGridCells }

GridCell(sh, r, c) ==
    IF r = sh.row /\ c = sh.cell
    THEN IF sh.probe = NotTd
         THEN Styled("Div", CellContents[sh.others])
         ELSE Styled("Td", CellContents[IF sh.probe = NotTr THEN sh.others
                                        ELSE sh.probe])
    ELSE Styled("Td", CellContents[sh.others])

GridTable(sh) ==
    Styled("Table",
        [r \in 1..sh.rows |->
            Styled(IF r = sh.row /\ sh.probe = NotTr THEN "Div" ELSE "Tr",
                   [c \in 1..sh.cells |-> GridCell(sh, r, c)])])

InitGrid ==
    /\ pc = "start"
    /\ shape \in GridShapes
    /\ source = <<>>
    /\ parsed = Ok(<<Styled("Body", <<Styled("Div", <<GridTable(shape)>>)>>)>>,
                   <<>>)
    /\ document = Panic
    /\ viewport = Size_new(0, 0)
    /\ layout = Panic
    /\ mouse_position = Position_new(0, 0)
    /\ hit = <<>>
    /\ scroll_y = 0
    /\ focused_on_toolbar = FALSE
    /\ toolbar = Toolbar_new

\* collect_definition at the table: TableDefinition::from_element
BuildTable ==
    /\ pc = "start"
    /\ document' = TableDefinition_rows(
                       Ok(<<>>, <<>>),
                       parsed.val[1].children[1].children[1].children)
    /\ pc' = IF document'.ok THEN "built" ELSE "not_built"
    /\ UNCHANGED <<shape, source, parsed, viewport, layout, mouse_position, hit,
                 scroll_y, focused_on_toolbar, toolbar>>

\* Layout::from_body on the body that holds the table
LayoutTable ==
    /\ pc = "start"
    /\ \E inner_size \in InnerSizes :
          /\ viewport' = inner_size
          /\ layout' = Layout_from_body(parsed.val[1], inner_size)
    /\ pc' = IF layout'.ok THEN "laid_out" ELSE "aborted"
    /\ UNCHANGED <<shape, source, parsed, document, mouse_position, hit,
                 scroll_y, focused_on_toolbar, toolbar>>

NextGrid == BuildTable \/ LayoutTable

SpecGrid == InitGrid /\ [][NextGrid]_vars

(***************************************************************************)
(* C15.  Building a table is fatal whenever a cell does not reduce to       *)
(* exactly one paragraph definition: a td without content, a td of two      *)
(* definitions or more, a td with a table in it, a child of a tr that is    *)
(* no td and a child of the table that is no tr each abort the building     *)
(* and the layout; a table whose cells each hold exactly one paragraph is   *)
(* built, with a row for every tr and a value for every td, and laid out.   *)
(***************************************************************************)
C15_OneParagraphPerCell ==
    /\ pc \in {"built", "not_built"} =>
          IF shape.probe \in OneParagraphCells
          THEN /\ document.ok
               /\ Len(document.val) = shape.rows
               /\ \A r \in DOMAIN document.val :
                     Len(document.val[r].values) = shape.cells
          ELSE ~document.ok
    /\ pc \in {"laid_out", "aborted"} =>
          (layout.ok <=> shape.probe \in OneParagraphCells)

\* the second cell of the second row holds a table: the table is not built
C15_NestedTableAborts ==
    /\ pc = "not_built"
    /\ shape.rows = 2
    /\ shape.cells = 2
    /\ shape.row = 2
    /\ shape.cell = 2
    /\ shape.probe = 6

(***************************************************************************)
(* The inline styles under test: up to MaxInlineDeclarations declarations   *)
(* joined by ';', with a ';' after the last one or without, parsed as the   *)
(* text of a style attribute and, each declaration closed by its ';', as a  *)
(* block in braces.  document holds the result of the block.                *)
(***************************************************************************)
MaxInlineDeclarations == 3

Trailers == {<<>>, <<";">>}

RenderInline(sh) == RenderStyle(sh) \o sh.trailer

RenderBlock(sh) ==
    <<"{">>
    \o Concat([i \in DOMAIN sh.declarations |->
                  RenderDeclaration(CssDeclarations[sh.declarations[i]])
                  \o <<";">>])
    \o <<"}">>

InlineShapes ==
    UNION { [kind : {"inline"}, separator : Separators, trailer : Trailers,
             declarations : [1..n -> DOMAIN CssDeclarations]] :
                n \in 0..MaxInlineDeclarations }

InitInline ==
    /\ pc = "start"
    /\ shape \in InlineShapes
    /\ source = RenderInline(shape)
    /\ parsed = Panic
    /\ document = Panic
    /\ viewport = Size_new(0, 0)
    /\ layout = Panic
    /\ mouse_position = Position_new(0, 0)
    /\ hit = <<>>
    /\ scroll_y = 0
    /\ focused_on_toolbar = FALSE
    /\ toolbar = Toolbar_new

\* the text of the style attribute is handed to parse_inline_css
ParseInline ==
    /\ pc = "start"
    /\ parsed' = parse_inline_css(source)
    /\ pc' = "inline"
    /\ UNCHANGED <<shape, source, document, viewport, layout, mouse_position, hit,
                 scroll_y, focused_on_toolbar, toolbar>>

\* the same declarations in braces are handed to parse_block
ParseBlock ==
    /\ pc = "inline"
    /\ document' = parse_block(RenderBlock(shape))
    /\ pc' = "both"
    /\ UNCHANGED <<shape, source, parsed, viewport, layout, mouse_position, hit,
                 scroll_y, focused_on_toolbar, toolbar>>

NextInline == ParseInline \/ ParseBlock

SpecInline == InitInline /\ [][NextInline]_vars

(***************************************************************************)
(* C16.  parse_inline_css gives exactly the rules parse_block gives for     *)
(* the same declarations in braces, in the order of the declarations, and   *)
(* aborts where parse_block aborts; the result is the same with a ';'       *)
(* after the last declaration and without; the empty text gives no rule.    *)
(***************************************************************************)
C16_InlineIsBlock ==
    /\ pc = "both" =>
          /\ parsed.ok = document.ok
          /\ parsed.val = document.val
          /\ parsed.ok => parsed.val = KnownRules(shape.declarations)
    /\ pc = "inline" =>
          LET other == parse_inline_css(
                           RenderStyle(shape)
                           \o (IF shape.trailer = <<>> THEN <<";">> ELSE <<>>))
          IN  parsed.ok = other.ok /\ parsed.val = other.val
    /\ pc = "inline" /\ source = <<>> => parsed.ok /\ parsed.val = <<>>

\* `width: 50px;font-size:12pt` without a ';' at its end gives the two
\* rules the block `{width: 50px;font-size:12pt;}` gives
C16_NoTrailingSemicolon ==
    /\ pc = "both"
    /\ source = <<"w", "i", "d", "t", "h", ":", " ", "5", "0", "p", "x", ";", "f", "o", "n", "t", "-", "s", "i", "z", "e", ":", "1", "2", "p", "t">>
    /\ parsed.val = DeclarationRule(1) \o DeclarationRule(2)
    /\ document.val = parsed.val

(***************************************************************************)
(* The documents with style sheets under test: a body of up to              *)
(* MaxSheetBlocks blocks, one of them with an inline background colour,     *)
(* and up to MaxRuleSets rule sets handed to Document::new with it.         *)
(***************************************************************************)
MaxSheetBlocks == 2

MaxRuleSets == 2

Green == [rule |-> "BackgroundColor", arg |-> [name |-> "Hex", n |-> <<0, 255, 0>>]]

SheetBlocks ==
    << [Element_new("Paragraph") EXCEPT
           !.children = <<Element_new_with_text("PlainText", <<"A">>)>>],
       [Element_new("Paragraph") EXCEPT
           !.children = <<Element_new_with_text("PlainText", <<"A", " ", "B">>)>>,
           !.attributes = {<<<<"s", "t", "y", "l", "e">>, RenderDeclaration(CssDeclarations[3])>>}],
       [Element_new("Div") EXCEPT
           !.children = <<Element_new_with_text("PlainText", <<"B">>)>>],
       [Element_new("H1") EXCEPT
           !.children = <<Element_new_with_text("PlainText", <<"A">>)>>] >>

RuleSets ==
    << RuleSet_new(<<Selector_Element("Paragraph")>>, <<Green>>),
       RuleSet_new(<<Selector_Element("Paragraph"), Selector_Element("Div")>>,
                   DeclarationRule(1) \o <<Green>>),
       RuleSet_new(<<Selector_Element("H1")>>, DeclarationRule(2)),
       RuleSet_new(<<Selector_Element("Div")>>, DeclarationRule(3)) >>

SheetShapes ==
    UNION { [kind : {"sheet"}, blocks : [1..n -> DOMAIN SheetBlocks],
             sheet : [1..m -> DOMAIN RuleSets]] :
                n \in 1..MaxSheetBlocks, m \in 0..MaxRuleSets }

SheetElements(sh) ==
    << [Element_new("Html") EXCEPT
           !.children =
               << [Element_new("Body") EXCEPT
                      !.children = [i \in DOMAIN sh.blocks |->
                                       SheetBlocks[sh.blocks[i]]]] >>] >>

InitSheet ==
    /\ pc = "parsed"
    /\ shape \in SheetShapes
    /\ source = <<>>
    /\ parsed = Ok(SheetElements(shape), <<>>)
    /\ document = Panic
    /\ viewport = Size_new(0, 0)
    /\ layout = Panic
    /\ mouse_position = Position_new(0, 0)
    /\ hit = <<>>
    /\ scroll_y = 0
    /\ focused_on_toolbar = FALSE
    /\ toolbar = Toolbar_new

\* Document::new with the elements and the rule sets of the style sheets
MakeDocument ==
    /\ pc = "parsed"
    /\ document' = Ok(Document_new(parsed.val,
                         [i \in DOMAIN shape.sheet |-> RuleSets[shape.sheet[i]]]),
                      <<>>)
    /\ pc' = "made"
    /\ UNCHANGED <<shape, source, parsed, viewport, layout, mouse_position, hit,
                 scroll_y, focused_on_toolbar, toolbar>>

\* Document::parse_inline_css attaches the inline styles to the elements
AttachInlineStyles ==
    /\ pc = "made"
    /\ LET attach(styled) ==
               IF ~styled.ok THEN Panic
               ELSE Ok([document.val EXCEPT !.elements = styled.val], <<>>)
       IN  document' = attach(Document_parse_inline_css(document.val.elements))
    /\ pc' = IF document'.ok THEN "ready" ELSE "aborted"
    /\ UNCHANGED <<shape, source, parsed, viewport, layout, mouse_position, hit,
                 scroll_y, focused_on_toolbar, toolbar>>

\* Window::update_page_layout on the document
LayOutDocument ==
    /\ pc \in {"ready", "laid_out"}
    /\ \E inner_size \in InnerSizes :
          /\ viewport' = inner_size
          /\ layout' = update_page_layout(Window_document_elements(document.val),
                                          inner_size)
    /\ pc' = IF layout'.ok THEN "laid_out" ELSE "aborted"
    /\ UNCHANGED <<shape, source, parsed, document, mouse_position, hit,
                 scroll_y, focused_on_toolbar, toolbar>>

NextSheet == MakeDocument \/ AttachInlineStyles \/ LayOutDocument

SpecSheet == InitSheet /\ [][NextSheet]_vars

\* the layout of the same elements in the same inner size when the document
\* has no rule set
LayoutWithoutSheet ==
    update_page_layout(Document_new(document.val.elements, <<>>).elements,
                       viewport)

SheetGaps == {<<>>, <<" ">>}

SheetBlockTexts ==
    {<<"{", "}">>, <<"{", "w", "i", "d", "t", "h", ":", " ", "5", "0", "p", "x", ";", "}">>, <<"{", " ", "b", "a", "c", "k", "g", "r", "o", "u", "n", "d", "-", "c", "o", "l", "o", "r", ":", " ", "#", "f", "f", "0", "0", "0", "0", ";", " ", "}">>}

SheetTails == {<<>>, <<" ", "p", " ", "{", "}">>}

SelectorShapes ==
    [kind : {"selector"}, name : Keywords \cup OtherNames, gap : SheetGaps,
     block : SheetBlockTexts, tail : SheetTails]

InitSelector ==
    /\ pc = "start"
    /\ shape \in SelectorShapes
    /\ source = shape.name \o shape.gap \o shape.block \o shape.tail
    /\ parsed = Panic
    /\ document = Panic
    /\ viewport = Size_new(0, 0)
    /\ layout = Panic
    /\ mouse_position = Position_new(0, 0)
    /\ hit = <<>>
    /\ scroll_y = 0
    /\ focused_on_toolbar = FALSE
    /\ toolbar = Toolbar_new

\* the text of the style sheet is handed to parse_css
ParseCss ==
    /\ pc = "start"
    /\ parsed' = parse_css(source)
    /\ pc' = IF parsed'.ok THEN "parsed" ELSE "aborted"
    /\ UNCHANGED <<shape, source, document, viewport, layout, mouse_position, hit,
                 scroll_y, focused_on_toolbar, toolbar>>

NextSelector == ParseCss

SpecSelector == InitSelector /\ [][NextSelector]_vars

(***************************************************************************)
(* C18.  As stated: parse_css takes every keyword of the tag set as a       *)
(* selector and gives the rule set the selector of the tag that             *)
(* Tag::from_string gives the keyword; only a name outside the tag set      *)
(* aborts the parse.                                                        *)
(***************************************************************************)
C18_EveryKeywordSelects ==
    pc # "start" =>
        IF Tag_from_string(shape.name).ok
        THEN /\ pc = "parsed"
             /\ parsed.val[1].selectors =
                    <<Selector_Element(Tag_from_string(shape.name).tag)>>
        ELSE pc = "aborted"

\* the sheet `div{width: 50px;}` aborts the parse although div is a keyword
\* of the tag set
C18_DivSelectorAborts ==
    /\ pc = "aborted"
    /\ source = <<"d", "i", "v", "{", "w", "i", "d", "t", "h", ":", " ", "5", "0", "p", "x", ";", "}">>
    /\ Tag_from_string(shape.name).tag = "Div"

(***************************************************************************)
(* C19.  As stated, on every tree parse_html returns: an element with a     *)
(* text of its own is a PlainText, a PlainText has no children, and a text  *)
(* that follows a child element is held by a PlainText sibling that comes   *)
(* after that child.                                                        *)
(***************************************************************************)
C19_TextOnlyInPlainText ==
    (pc # "start" /\ parsed.ok) =>
        /\ \A e \in Descendants(parsed.val) :
              /\ e.inner_text # <<>> => e.element_type = "PlainText"
              /\ e.element_type = "PlainText" => e.children = <<>>
        /\ \A i \in 1..(Len(shape.items) - 1) :
              (shape.items[i] \in InlinePieces /\ shape.items[i + 1] \in TextPieces)
                  => \E k \in DOMAIN RootElement.children :
                        /\ k > 1
                        /\ RootElement.children[k].element_type = "PlainText"
                        /\ RootElement.children[k - 1].element_type \in {"A", "Span"}

\* `<p>A <a href="x">B</a> C</p>` is parsed into a p of two children, the
\* text `A` and the a, and the a holds the text `C` as its own inner_text
C19_TextOnAnchor ==
    /\ pc = "parsed"
    /\ shape.items = <<1, 5, 2>>
    /\ Len(RootElement.children) = 2
    /\ RootElement.children[2].element_type = "A"
    /\ RootElement.children[2].inner_text = <<"C">>
    /\ RootElement.children[2].children = <<Element_new_with_text("PlainText", <<"B">>)>>

(***************************************************************************)
(* The elements under test for the loop of collect_definition: a parent     *)
(* with up to MaxCollectChildren children, each a text, an inline element   *)
(* (span, a) of some content, a table or another element.  parsed holds    *)
(* the definition so far and the flag, document the parent, hit the         *)
(* children that are left.                                                  *)
(***************************************************************************)
MaxCollectChildren == 3

CollectChildren ==
    << PlainTextOf(<<"A">>),
       Styled("Span", <<PlainTextOf(<<"B">>)>>),
       [Styled("A", <<PlainTextOf(<<"C">>)>>) EXCEPT
           !.attributes = {<<<<"h", "r", "e", "f">>, <<"x">>>>}],
       Styled("Span", <<>>),
       TableElement(<< <<1>> >>),
       Styled("Div", <<PlainTextOf(<<"D">>)>>),
       Styled("Span", <<PlainTextOf(<<"B">>),
                        Styled("Div", <<PlainTextOf(<<"E">>)>>)>>),
       Styled("Span", <<TableElement(<< <<1>> >>)>>),
       Styled("Br", <<>>) >>

CollectShapes ==
    UNION { [kind : {"collect"}, tag : {"Paragraph", "Div"},
             children : [1..n -> DOMAIN CollectChildren]] :
                n \in 0..MaxCollectChildren }

InitCollect ==
    /\ pc = "collecting"
    /\ shape \in CollectShapes
    /\ source = <<>>
    /\ document = Ok(Styled(shape.tag, [i \in DOMAIN shape.children |->
                                           CollectChildren[shape.children[i]]]),
                     <<>>)
    /\ parsed = Ok([definition |-> [tag |-> shape.tag, children |-> <<>>],
                    allow_paragraph_connecting |-> FALSE], <<>>)
    /\ hit = document.val.children
    /\ viewport = Size_new(0, 0)
    /\ layout = Panic
    /\ mouse_position = Position_new(0, 0)
    /\ scroll_y = 0
    /\ focused_on_toolbar = FALSE
    /\ toolbar = Toolbar_new

\* one turn of the loop of collect_definition over the children
CollectChild ==
    /\ pc = "collecting"
    /\ hit # <<>>
    /\ parsed' = collect_child(document.val, None, parsed.val.definition,
                               parsed.val.allow_paragraph_connecting, Head(hit))
    /\ hit' = Tail(hit)
    /\ pc' = IF parsed'.ok THEN "collecting" ELSE "aborted"
    /\ UNCHANGED <<shape, source, document, viewport, layout, mouse_position,
                 scroll_y, focused_on_toolbar, toolbar>>

\* the loop is over and collect_definition returns the definition
ReturnDefinition ==
    /\ pc = "collecting"
    /\ hit = <<>>
    /\ pc' = "collected"
    /\ UNCHANGED <<shape, source, parsed, document, viewport, layout,
                   mouse_position, hit,
                 scroll_y, focused_on_toolbar, toolbar>>

NextCollect == CollectChild \/ ReturnDefinition

SpecCollect == InitCollect /\ [][NextCollect]_vars

(***************************************************************************)
(* What the properties below read off a turn of the loop                    *)
(***************************************************************************)
\* a turn of the loop that did not abort
Turn == pc = "collecting" /\ hit # <<>> /\ pc' = "collecting"

Inline(child) == child.element_type \in {"Span", "A"}

DefinitionsOf(child) == collect_definition(child).val.children

AllParagraphs(definitions) ==
    \A i \in DOMAIN definitions : definitions[i].kind = "Paragraph"

SentencesOf(definitions) ==
    Concat([i \in DOMAIN definitions |-> definitions[i].def.sentences])

LastIsParagraph(children) ==
    children # <<>> /\ children[Len(children)].kind = "Paragraph"

\* the flag after a turn, as the claim gives it
FlagRule ==
    Turn =>
        parsed'.val.allow_paragraph_connecting
            = CASE Head(hit).element_type = "PlainText" -> TRUE
                [] Inline(Head(hit)) -> TRUE
                [] Head(hit).element_type = "Table" ->
                       parsed.val.allow_paragraph_connecting
                [] OTHER -> FALSE

\* the definitions of the inline child are appended as new siblings
AppendedAsSiblings ==
    parsed'.val.definition.children
        = parsed.val.definition.children \o DefinitionsOf(Head(hit))

\* the sentences of the inline child go to the last paragraph of the parent
\* and no definition is added
JoinedToLast ==
    LET before == parsed.val.definition.children
        after  == parsed'.val.definition.children
    IN  /\ LastIsParagraph(before)
        /\ Len(after) = Len(before)
        /\ \A i \in 1..(Len(before) - 1) : after[i] = before[i]
        /\ after[Len(before)].kind = "Paragraph"
        /\ after[Len(before)].def.sentences
              = before[Len(before)].def.sentences
                \o SentencesOf(DefinitionsOf(Head(hit)))

(***************************************************************************)
(* C20.  The connecting flag starts false, is true after a text and after   *)
(* a span or an a, false after any other child that is no table, and as it  *)
(* was after a table.  A span or an a met with the flag false has its       *)
(* definitions appended as new siblings.  Met with the flag true, its       *)
(* sentences go to the last definition of the parent when that is a         *)
(* paragraph, and the collection aborts there when one of its definitions   *)
(* is a table; when the parent has no definition yet or its last one is a   *)
(* table, its definitions are appended as new siblings.                     *)
(***************************************************************************)
C20_ConnectingFlag ==
    [][ /\ FlagRule
        /\ (Turn /\ Inline(Head(hit))) =>
              IF parsed.val.allow_paragraph_connecting
                 /\ LastIsParagraph(parsed.val.definition.children)
              THEN JoinedToLast
              ELSE AppendedAsSiblings
        /\ (pc = "collecting" /\ hit # <<>> /\ Inline(Head(hit))) =>
              (pc' = "aborted"
                 <=> /\ parsed.val.allow_paragraph_connecting
                     /\ LastIsParagraph(parsed.val.definition.children)
                     /\ ~AllParagraphs(DefinitionsOf(Head(hit))))
        /\ (pc = "collecting" /\ parsed.val.definition.children = <<>>
              /\ hit = document.val.children) =>
              ~parsed.val.allow_paragraph_connecting ]_vars

\* As stated: whenever a span or an a is met with the flag true, its
\* sentences go to the last paragraph of the parent and no definition is
\* added
C20_AlwaysJoined ==
    [][ /\ FlagRule
        /\ (Turn /\ Inline(Head(hit))) =>
              IF parsed.val.allow_paragraph_connecting
              THEN JoinedToLast
              ELSE AppendedAsSiblings ]_vars

\* after the text `A`, a table and `<span>B</span>` the parent has three
\* definitions: the paragraph of A, the table and a paragraph of B of its
\* own, although the span was met with the flag true
C20_SiblingAfterTable ==
    /\ pc = "collected"
    /\ shape.children = <<1, 5, 2>>
    /\ parsed.val.allow_paragraph_connecting
    /\ Len(parsed.val.definition.children) = 3
    /\ parsed.val.definition.children[2].kind = "Table"
    /\ parsed.val.definition.children[3].kind = "Paragraph"
    /\ Len(parsed.val.definition.children[1].def.sentences) = 1

(***************************************************************************)
(* The tables under test for the flattening: up to MaxFlatRows rows of up   *)
(* to MaxFlatCells cells (a row may have none), each cell a text and a     *)
(* span or a text of three words, in a div of the body, with or            *)
(* without a paragraph before the div.  document holds the rows of the      *)
(* table definition.                                                        *)
(***************************************************************************)
MaxFlatRows == 2

MaxFlatCells == 2

FlatCells ==
    << <<PlainTextOf(<<"A">>), Styled("Span", <<PlainTextOf(<<"D">>)>>)>>,
       <<PlainTextOf(<<"C", "C", " ", "A", " ", "B">>)>> >>

FlatRows == UNION { [1..n -> DOMAIN FlatCells] : n \in 0..MaxFlatCells }

FlatShapes ==
    UNION { [kind : {"flat"}, before : BOOLEAN, rows : [1..n -> FlatRows]] :
               n \in 0..MaxFlatRows }

FlatTable(sh) ==
    Styled("Table",
        [r \in DOMAIN sh.rows |->
            Styled("Tr", [c \in DOMAIN sh.rows[r] |->
                             Styled("Td", FlatCells[sh.rows[r][c]])])])

FlatBody(sh) ==
    Styled("Body",
        (IF sh.before THEN <<Styled("Paragraph", <<PlainTextOf(<<"A">>)>>)>>
         ELSE <<>>)
        \o <<Styled("Div", <<FlatTable(sh)>>)>>)

InitFlat ==
    /\ pc = "start"
    /\ shape \in FlatShapes
    /\ source = <<>>
    /\ parsed = Ok(<<FlatBody(shape)>>, <<>>)
    /\ document = Panic
    /\ viewport = Size_new(0, 0)
    /\ layout = Panic
    /\ mouse_position = Position_new(0, 0)
    /\ hit = <<>>
    /\ scroll_y = 0
    /\ focused_on_toolbar = FALSE
    /\ toolbar = Toolbar_new

\* collect_definition at the table: TableDefinition::from_element
DefineTable ==
    /\ pc = "start"
    /\ document' = TableDefinition_rows(Ok(<<>>, <<>>), FlatTable(shape).children)
    /\ pc' = "defined"
    /\ UNCHANGED <<shape, source, parsed, viewport, layout, mouse_position, hit,
                 scroll_y, focused_on_toolbar, toolbar>>

\* Layout::from_body on the body that holds the table
FlattenTable ==
    /\ pc = "defined"
    /\ \E inner_size \in InnerSizes :
          /\ viewport' = inner_size
          /\ layout' = Layout_from_body(parsed.val[1], inner_size)
    /\ pc' = IF layout'.ok THEN "laid_out" ELSE "aborted"
    /\ UNCHANGED <<shape, source, parsed, document, mouse_position, hit,
                 scroll_y, focused_on_toolbar, toolbar>>

NextFlat == DefineTable \/ FlattenTable

SpecFlat == InitFlat /\ [][NextFlat]_vars

\* the cells of the table in row-major order, each with its row and column
RECURSIVE CellsFrom(_)
CellsFrom(r) ==
    IF r > Len(document.val) THEN <<>>
    ELSE [c \in DOMAIN document.val[r].values |-> [row |-> r, column |-> c]]
         \o CellsFrom(r + 1)

\* the paragraph of a cell on its own, moved to the offset of its column
\* and the line of its row
PlacedCell(cell) ==
    Paragraph_make_relative_to(
        ParagraphDefinition_compile(document.val[cell.row].values[cell.column],
                                    Size_new(CellViewport, CellViewport)),
        Position_new(SumTo(table_column_widths(<<>>, document.val),
                           cell.column - 1),
                     (cell.row - 1) * DEFAULT_FONT_SIZE))

\* where the flow puts the table: under the paragraph before it, if any
TableY ==
    IF shape.before
    THEN get_glyph_height(DEFAULT_FONT_SIZE)
         + get_glyph_height(DEFAULT_FONT_SIZE) \div 2
    ELSE 0

Repeat(c, n) == [i \in 1..n |-> c]

WideTexts ==
    << <<"A">>,
       <<"C", "C", " ", "A", " ", "B">>,
       Repeat("B", 50),
       Repeat("B", 51),
       <<"A", " ">> \o Repeat("B", 49),
       <<"A", " ">> \o Repeat("B", 50),
       Repeat("B", 50) \o <<" ", "A">> >>

WideShapes ==
    UNION { [kind : {"wide"}, rows : {r}, cells : {c},
             row : 1..r, cell : 1..c, probe : DOMAIN WideTexts] :
               r \in 1..MaxGridRows, c \in 1..MaxGridCells }

WideTable(sh) ==
    Styled("Table",
        [r \in 1..sh.rows |->
            Styled("Tr",
                [c \in 1..sh.cells |->
                    Styled("Td",
                        <<PlainTextOf(IF r = sh.row /\ c = sh.cell
                                      THEN WideTexts[sh.probe]
                                      ELSE WideTexts[1])>>)])])

InitWide ==
    /\ pc = "start"
    /\ shape \in WideShapes
    /\ source = <<>>
    /\ parsed = Ok(<<WideTable(shape)>>, <<>>)
    /\ document = Panic
    /\ viewport = Size_new(0, 0)
    /\ layout = Panic
    /\ mouse_position = Position_new(0, 0)
    /\ hit = <<>>
    /\ scroll_y = 0
    /\ focused_on_toolbar = FALSE
    /\ toolbar = Toolbar_new

SpecWide == InitWide /\ [][NextTable]_vars

(***************************************************************************)
(* C22.  As stated: whatever the words of a cell, all the words of its      *)
(* compiled paragraph stand on one line, the line of its row.               *)
(***************************************************************************)
C22_CellOnOneLine ==
    pc = "compiled" =>
        \A r \in DOMAIN document.val :
            \A c \in DOMAIN document.val[r].values :
                LET words == PlacedWords(layout.paragraphs[CellIndex(r, c)]) IN
                \A i \in DOMAIN words :
                    words[i].position.y = (r - 1) * DEFAULT_FONT_SIZE

\* a cell of the one word of 51 glyphs B, 2040 wide, has its word one line
\* height under the line of its row, and a cell of 50 glyphs B, 2000 wide,
\* has it on the line
C22_WideCellWraps ==
    /\ pc = "compiled"
    /\ shape.rows = 1 /\ shape.cells = 1
    /\ Len(PlacedWords(layout.paragraphs[1])) = 1
    /\ PlacedWords(layout.paragraphs[1])[1].width = 2040
    /\ PlacedWords(layout.paragraphs[1])[1].position
          = Position_new(0, get_glyph_height(DEFAULT_FONT_SIZE))

(***************************************************************************)
(* The documents under test for the background colour: one block of the    *)
(* body with a style attribute `background-color: c`, c a hex colour or a   *)
(* colour name, and one or two texts as its direct children.  The document  *)
(* is made, styled and laid out as in SpecSheet, without rule sets.         *)
(***************************************************************************)
ColourTexts ==
    << <<"#", "f", "f", "0", "0", "0", "0">>, <<"#", "0", "0", "f", "f", "0", "0">>, <<"w", "h", "i", "t", "e">>, <<"g", "r", "a", "y">>, <<"l", "i", "g", "h", "t", "g", "r", "a", "y">>,
       <<"t", "r", "a", "n", "s", "p", "a", "r", "e", "n", "t">> >>

\* the Color the value parser gives each of them
ColourOf(c) ==
    CASE c = 1 -> [name |-> "Hex", n |-> <<255, 0, 0>>]
      [] c = 2 -> [name |-> "Hex", n |-> <<0, 255, 0>>]
      [] c = 3 -> [name |-> "White", n |-> <<>>]
      [] c = 4 -> [name |-> "Gray", n |-> <<>>]
      [] c = 5 -> [name |-> "Lightgray", n |-> <<>>]
      [] c = 6 -> [name |-> "Transparent", n |-> <<>>]

ColourContents ==
    << <<Element_new_with_text("PlainText", <<"A">>)>>,
       <<Element_new_with_text("PlainText", <<"A", " ", "B">>), Element_new("Br"),
         Element_new_with_text("PlainText", <<"C">>)>> >>

ColourShapes ==
    [kind : {"colour"}, tag : {"Paragraph", "Div", "H1"},
     colour : DOMAIN ColourTexts, colon : {<<":">>, <<":", " ">>},
     content : DOMAIN ColourContents, sheet : {<<>>}]

ColourElements(sh) ==
    << [Element_new("Html") EXCEPT
           !.children =
               << [Element_new("Body") EXCEPT
                      !.children =
                          << [Element_new(sh.tag) EXCEPT
                                 !.children = ColourContents[sh.content],
                                 !.attributes =
                                     {<<<<"s", "t", "y", "l", "e">>,
                                        <<"b", "a", "c", "k", "g", "r", "o", "u", "n", "d", "-", "c", "o", "l", "o", "r">> \o sh.colon
                                        \o ColourTexts[sh.colour]>>}] >>] >>] >>

InitColour ==
    /\ pc = "parsed"
    /\ shape \in ColourShapes
    /\ source = <<>>
    /\ parsed = Ok(ColourElements(shape), <<>>)
    /\ document = Panic
    /\ viewport = Size_new(0, 0)
    /\ layout = Panic
    /\ mouse_position = Position_new(0, 0)
    /\ hit = <<>>
    /\ scroll_y = 0
    /\ focused_on_toolbar = FALSE
    /\ toolbar = Toolbar_new

SpecColour == InitColour /\ [][NextSheet]_vars

\* the block of the body once styled
ColourBlock == document.val.elements[1].children[1].children[1]

(***************************************************************************)
(* C23.  As stated: the style attribute gives the block the rule            *)
(* BackgroundColor(c) for a hex colour and for a colour name alike, no      *)
(* colour aborts the layout, and every paragraph made of a text that is a   *)
(* direct child of the block has a background colour, the three bytes of c  *)
(* when c is a hex colour.                                                  *)
(***************************************************************************)
C23_AnyColourResolved ==
    /\ pc \notin {"parsed", "made"} =>
          /\ document.ok
          /\ ColourBlock.inner_styles
                = <<[rule |-> "BackgroundColor", arg |-> ColourOf(shape.colour)]>>
    /\ pc \notin {"parsed", "made", "ready"} =>
          /\ layout.ok
          /\ Len(layout.val.paragraphs) = shape.content
          /\ \A i \in DOMAIN layout.val.paragraphs :
                /\ layout.val.paragraphs[i].background_color # None
                /\ ColourOf(shape.colour).name = "Hex" =>
                      layout.val.paragraphs[i].background_color
                          = Some(ColourOf(shape.colour).n)

\* `<p style="background-color: white">A</p>` is styled with the rule
\* BackgroundColor(White) and aborts the layout
C23_WhiteAborts ==
    /\ pc = "aborted"
    /\ shape.tag = "Paragraph" /\ shape.colour = 3 /\ shape.content = 1
    /\ document.ok
    /\ ColourBlock.inner_styles
          = <<[rule |-> "BackgroundColor", arg |-> [name |-> "White", n |-> <<>>]]>>
    /\ ~layout.ok

(***************************************************************************)
(* What the property below reads off a compiled paragraph of SpecParagraph  *)
(***************************************************************************)
LineHeight == get_glyph_height(document.font_size)

\* the words placed that open a new line
WrappedWords(placed) ==
    {i \in DOMAIN placed :
        placed[i].position.y # (IF i = 1 THEN 0 ELSE placed[i - 1].position.y)}

\* the index among the placed words of the first word of sentence s
RECURSIVE FirstWordOf(_, _)
FirstWordOf(sentences, s) ==
    IF s = 1 THEN 1
    ELSE FirstWordOf(sentences, s - 1) + Len(sentences[s - 1].words)

(***************************************************************************)
(* C24.  A sentence never opens a line of its own: its first word stands    *)
(* 10 after the last word of the sentence before it, on the same line,      *)
(* unless it would pass the viewport's width there, and only then is it     *)
(* placed at x = 0 one line height down.  The height of the paragraph is    *)
(* the y of the last word and a line height, the number of words that       *)
(* opened a line, and one, times the line height.                           *)
(***************************************************************************)
C24_SentencesFlow ==
    pc = "compiled" =>
        LET placed == PlacedWords(layout) IN
        /\ \A s \in 2..Len(layout.sentences) :
              LET k == FirstWordOf(layout.sentences, s) IN
              IF placed[k - 1].position.x + placed[k - 1].width + seperation_width
                    + placed[k].width > viewport.width
              THEN placed[k].position
                      = Position_new(0, placed[k - 1].position.y + LineHeight)
              ELSE placed[k].position
                      = Position_new(placed[k - 1].position.x + placed[k - 1].width
                                         + seperation_width,
                                     placed[k - 1].position.y)
        /\ layout.height = placed[Len(placed)].position.y + LineHeight
        /\ layout.height = (Cardinality(WrappedWords(placed)) + 1) * LineHeight

\* of `A B` and the span `CC` in a viewport 400 wide, CC follows B on the
\* first line at x = 85 and the paragraph is one line high
C24_SpanContinuesLine ==
    /\ pc = "compiled"
    /\ shape.tag = "Paragraph"
    /\ shape.texts = <<3, 2>>
    /\ viewport.width = 400
    /\ layout.sentences[2].words[1].position = Position_new(85, 0)
    /\ layout.height = LineHeight

(***************************************************************************)
(* The attribute lists under test: up to MaxAttributes pairs name, quote,   *)
(* value, a space before each, closed by `>` or `/>`; a value never holds   *)
(* the quote it is written in.                                              *)
(***************************************************************************)
MaxAttributes == 2

AttributeNames == {<<"h", "r", "e", "f">>, <<"i", "d">>}

AttributeValues == {<<"x">>, <<"a", " ", "b">>, <<"i", "t", "'", "s">>, <<"a", "\"", "b">>, <<>>}

Quotes == {"'", "\""}

Contains(s, c) == \E i \in DOMAIN s : s[i] = c

AttributePairs ==
    {a \in [name : AttributeNames, quote : Quotes, value : AttributeValues] :
        ~Contains(a.value, a.quote)}

AttributeShapes ==
    UNION { [kind : {"attributes"}, closing : {<<">">>, <<"/", ">">>},
             pairs : [1..n -> AttributePairs]] : n \in 0..MaxAttributes }

RenderPair(a) == <<" ">> \o a.name \o <<"=">> \o <<a.quote>> \o a.value \o <<a.quote>>

RenderPairs(sh) ==
    Concat([i \in DOMAIN sh.pairs |-> RenderPair(sh.pairs[i])]) \o sh.closing

InitAttributes ==
    /\ pc = "start"
    /\ shape \in AttributeShapes
    /\ source = RenderPairs(shape)
    /\ parsed = Panic
    /\ document = Panic
    /\ viewport = Size_new(0, 0)
    /\ layout = Panic
    /\ mouse_position = Position_new(0, 0)
    /\ hit = <<>>
    /\ scroll_y = 0
    /\ focused_on_toolbar = FALSE
    /\ toolbar = Toolbar_new

\* parse_html_element hands the text after the name to parse_attributes
ParseAttributes ==
    /\ pc = "start"
    /\ parsed' = parse_attributes(source)
    /\ pc' = IF parsed'.ok THEN "parsed" ELSE "aborted"
    /\ UNCHANGED <<shape, source, document, viewport, layout, mouse_position, hit,
                 scroll_y, focused_on_toolbar, toolbar>>

NextAttributes == ParseAttributes

SpecAttributes == InitAttributes /\ [][NextAttributes]_vars

\* the last value written for a name
LastValue(pairs, name) ==
    pairs[CHOOSE i \in DOMAIN pairs :
              /\ pairs[i].name = name
              /\ \A j \in DOMAIN pairs : pairs[j].name = name => j <= i].value

(***************************************************************************)
(* C25.  As stated: every pair gives its name the whole text between its    *)
(* quotes, a quote of the other kind in it included, and a name written     *)
(* twice has one entry in the map, with the value written last.             *)
(***************************************************************************)
C25_ValueWhole ==
    pc # "start" =>
        /\ pc = "parsed"
        /\ parsed.rest = shape.closing
        /\ parsed.val
              = {<<shape.pairs[i].name, LastValue(shape.pairs, shape.pairs[i].name)>> :
                     i \in DOMAIN shape.pairs}

\* the attributes ` href="it's">` abort the parse: the value ends at the
\* single quote
C25_InnerQuoteAborts ==
    /\ pc = "aborted"
    /\ source = <<" ", "h", "r", "e", "f", "=", "\"", "i", "t", "'", "s", "\"", ">">>
    /\ get_string(<<"\"", "i", "t", "'", "s", "\"", ">">>).val = <<"i", "t">>

(***************************************************************************)
(* C26.  Every word placed stands at x = 0 or ends within the viewport's    *)
(* width, and of two words in a row on one line the later one stands 10     *)
(* after the end of the earlier one: words on a line do not overlap.        *)
(***************************************************************************)
C26_WrapInvariant ==
    pc = "compiled" =>
        LET placed == PlacedWords(layout) IN
        /\ \A i \in DOMAIN placed :
              /\ placed[i].width >= 0
              /\ \/ placed[i].position.x = 0
                 \/ placed[i].position.x + placed[i].width <= viewport.width
        /\ \A i \in 2..Len(placed) :
              placed[i].position.y = placed[i - 1].position.y =>
                  placed[i].position.x
                      = placed[i - 1].position.x + placed[i - 1].width
                        + seperation_width

\* of `B CC` and the span `A B` in a viewport 100 wide, B stands alone on
\* the first line, CC and A share the second, A 10 after the end of CC, and
\* B opens the third
C26_SecondLineShared ==
    /\ pc = "compiled"
    /\ shape.tag = "Paragraph"
    /\ shape.texts = <<4, 3>>
    /\ viewport.width = 100
    /\ [i \in 1..4 |-> PlacedWords(layout)[i].position]
          = <<Position_new(0, 0), Position_new(0, 44), Position_new(70, 44),
              Position_new(0, 88)>>

(***************************************************************************)
(* C27.  As stated: of two paragraphs in a row of the layout, a flattened   *)
(* table included, every word of the later one stands at or under the       *)
(* bottom of every word of the earlier one.                                 *)
(***************************************************************************)
C27_NoVerticalOverlap ==
    pc = "laid_out" =>
        \A i \in 1..(Len(layout.val.paragraphs) - 1) :
            \A upper \in Range(PlacedWords(layout.val.paragraphs[i])) :
                \A lower \in Range(PlacedWords(layout.val.paragraphs[i + 1])) :
                    lower.position.y >= upper.position.y + upper.height

\* a table of two rows and the paragraph `A` after it: the table is as high
\* as its first cell, 44, so the paragraph stands at y = 66, while the word
\* of the second row stands at y = 40 and ends at 84
C27_ParagraphInsideTable ==
    /\ pc = "laid_out"
    /\ shape.blocks = <<4, 1>>
    /\ Len(layout.val.paragraphs) = 2
    /\ layout.val.paragraphs[1].height = 44
    /\ layout.val.paragraphs[1].sentences[3].words[1].position = Position_new(0, 40)
    /\ layout.val.paragraphs[1].sentences[3].words[1].height = 44
    /\ layout.val.paragraphs[2].sentences[1].words[1].position = Position_new(0, 66)

(***************************************************************************)
(* The bodies under test for the texts of the layout: up to MaxBlocks       *)
(* children of a body, each a paragraph, a text of the body itself, a div   *)
(* of a paragraph and a text, a paragraph with an a and a span, a div with  *)
(* a table or a heading of a span, laid out as in SpecFlow.                 *)
(***************************************************************************)
TextBlocks ==
    << Styled("Paragraph", <<PlainTextOf(<<"A", " ", "B">>)>>),
       PlainTextOf(<<"B", " ", "C">>),
       Styled("Div", <<Styled("Paragraph", <<PlainTextOf(<<"A">>)>>),
                       PlainTextOf(<<"D">>)>>),
       Styled("Paragraph", <<PlainTextOf(<<"A">>),
                             Styled("A", <<PlainTextOf(<<"B">>)>>),
                             Styled("Span", <<PlainTextOf(<<"C", " ", "D">>)>>)>>),
       Styled("Div", <<TableElement(<< <<1, 2>>, <<3>> >>)>>),
       Styled("H1", <<Styled("Span", <<PlainTextOf(<<"C", "C">>)>>)>>) >>

TextShapes ==
    UNION { [kind : {"text"}, blocks : [1..n -> DOMAIN TextBlocks]] :
               n \in 0..MaxBlocks }

InitText ==
    /\ pc = "ready"
    /\ shape \in TextShapes
    /\ source = <<>>
    /\ parsed = Ok(<<Styled("Body", [i \in DOMAIN shape.blocks |->
                                        TextBlocks[shape.blocks[i]]])>>, <<>>)
    /\ document = Panic
    /\ viewport = Size_new(0, 0)
    /\ layout = Panic
    /\ mouse_position = Position_new(0, 0)
    /\ hit = <<>>
    /\ scroll_y = 0
    /\ focused_on_toolbar = FALSE
    /\ toolbar = Toolbar_new

SpecText == InitText /\ [][NextFlow]_vars

\* the words of every PlainText at or under the element, one entry for each
\* PlainText, in document order
RECURSIVE TextsUnder(_)
TextsUnder(element) ==
    IF element.element_type = "PlainText" THEN <<split(element.inner_text)>>
    ELSE Concat([i \in DOMAIN element.children |->
                    TextsUnder(element.children[i])])

\* the words of every sentence of the layout, one entry for each sentence
LayoutSentences ==
    Concat([i \in DOMAIN layout.val.paragraphs |->
               [s \in DOMAIN layout.val.paragraphs[i].sentences |->
                   SentenceWords(layout.val.paragraphs[i].sentences[s])]])

\* how often each entry occurs
Occurrences(entries) ==
    [e \in Range(entries) |-> Cardinality({i \in DOMAIN entries : entries[i] = e})]

(***************************************************************************)
(* C28.  As stated: the layout of a body is made, and every PlainText       *)
(* under the body, a text that is a child of the body itself included,      *)
(* has its words, in order, in one sentence of the layout and in one only:  *)
(* the sentences of the layout are the texts under the body, each as often  *)
(* as it occurs there.                                                      *)
(***************************************************************************)
C28_TextComplete ==
    pc # "ready" =>
        /\ pc = "laid_out"
        /\ Occurrences(LayoutSentences) = Occurrences(TextsUnder(parsed.val[1]))

\* a body of `<p>A B</p>` and the text `B C` of its own is laid out as the
\* one paragraph of A and B; the words of the text are in no sentence
C28_BodyTextDropped ==
    /\ pc = "laid_out"
    /\ shape.blocks = <<1, 2>>
    /\ TextsUnder(parsed.val[1]) = <<<<<<"A">>, <<"B">>>>, <<<<"B">>, <<"C">>>>>>
    /\ LayoutSentences = <<<<<<"A">>, <<"B">>>>>>

(***************************************************************************)
(* The loops of the two parsers, one turn at a time.  A loop is entered     *)
(* with nothing collected and a text in front of it; `parsed` is the state  *)
(* of the loop (what it collected, and the rest of the text) and `hit` is   *)
(* the number of turns it has taken.  The loops are those of                *)
(* parse_html_iter, parse_element_content, parse_attributes, parse_css,     *)
(* parse_block (the text is what follows its '{'), and the outer and the    *)
(* inner loop of parse_css_value.                                           *)
(***************************************************************************)
MaxLoopText == 4

\* the pieces the texts in front of a loop are made of
LoopPieces(loop) ==
    CASE loop = "parse_html_iter" -> {<<"<", "b", "r", ">">>, <<" ">>, <<"x">>}
      [] loop = "parse_element_content" -> {<<"x">>, <<"<", "b", "r", ">">>, <<"<", "/">>}
      [] loop = "parse_attributes" -> {<<" ">>, <<"a", "=", "\"", "b", "\"">>, <<">">>}
      [] loop = "parse_css" -> {<<" ">>, <<"p", "{", "}">>, <<"x">>}
      [] loop = "parse_block" -> {<<" ">>, <<"w", ":", "1", ";">>, <<"}">>}
      [] loop = "parse_css_value" -> {<<"#", "0", "0", "0", "0", "0", "0">>, <<"1">>, <<";">>}
      [] loop = "parse_css_value_tokens" -> {<<"1">>, <<" ">>, <<";">>}

LoopNames ==
    {"parse_html_iter", "parse_element_content", "parse_attributes",
     "parse_css", "parse_block", "parse_css_value", "parse_css_value_tokens"}

LoopTexts(loop) ==
    {Concat(pieces) :
         pieces \in UNION {[1..n -> LoopPieces(loop)] : n \in 0..MaxLoopText}}

\* parse_css_value enters its inner loop in front of a letter, a digit or a
\* point only
EntersLoop(loop, text) ==
    loop = "parse_css_value_tokens" =>
        /\ text # <<>>
        /\ is_alphabetic(Head(text)) \/ is_numeric(Head(text)) \/ Head(text) = "."

LoopShapes ==
    UNION {{[loop |-> l, text |-> t] : t \in {x \in LoopTexts(l) : EntersLoop(l, x)}} :
               l \in LoopNames}

\* what a loop has collected when it is entered: parse_attributes fills a
\* HashMap, the other loops a Vec
Collected(loop) == IF loop = "parse_attributes" THEN {} ELSE <<>>

InitLoops ==
    /\ pc = "looping"
    /\ shape \in LoopShapes
    /\ source = shape.text
    /\ parsed = Ok(Collected(shape.loop), source)
    /\ document = Panic
    /\ viewport = Size_new(0, 0)
    /\ layout = Panic
    /\ mouse_position = Position_new(0, 0)
    /\ hit = 0
    /\ scroll_y = 0
    /\ focused_on_toolbar = FALSE
    /\ toolbar = Toolbar_new

\* what a turn leaves: the loop has ended, or the turn has aborted, or the
\* loop goes on from the state the turn gives
LoopTurn(ended, state) ==
    /\ pc = "looping"
    /\ hit <= Len(source)
    /\ hit' = hit + 1
    /\ parsed' = IF ended THEN parsed ELSE state
    /\ pc' = IF ended THEN "returned"
             ELSE IF parsed'.ok THEN "looping" ELSE "aborted"
    /\ UNCHANGED <<shape, source, document, viewport, layout, mouse_position,
                 scroll_y, focused_on_toolbar, toolbar>>

\* a turn of parse_html_iter: None ends the loop
TurnHtml ==
    /\ shape.loop = "parse_html_iter"
    /\ LoopTurn(parsed.rest = <<>>,
                IF parsed.rest = <<>> THEN Panic
                ELSE parse_html_item(parsed.val, parsed.rest))

\* a turn of parse_element_content: "</" and None end the loop
TurnContent ==
    /\ shape.loop = "parse_element_content"
    /\ LoopTurn(\/ parsed.rest = <<>>
                \/ (Len(parsed.rest) >= 2 /\ parsed.rest[1] = "<"
                    /\ parsed.rest[2] = "/"),
                IF parsed.rest = <<>> THEN Panic
                ELSE parse_content_item(parsed.val, parsed.rest))

\* a turn of parse_attributes: '>' and '/' end the loop, None aborts
TurnAttributes ==
    /\ shape.loop = "parse_attributes"
    /\ LoopTurn(parsed.rest # <<>> /\ Head(parsed.rest) \in {">", "/"},
                IF parsed.rest = <<>> THEN Panic
                ELSE parse_attribute(parsed.val, parsed.rest))

\* a turn of parse_css: None ends the loop
TurnCss ==
    /\ shape.loop = "parse_css"
    /\ LoopTurn(parsed.rest = <<>>,
                IF parsed.rest = <<>> THEN Panic
                ELSE parse_css_item(parsed.val, parsed.rest))

\* a turn of parse_block: '}' ends the loop, None aborts
TurnBlock ==
    /\ shape.loop = "parse_block"
    /\ LoopTurn(parsed.rest # <<>> /\ Head(parsed.rest) = "}",
                IF parsed.rest = <<>> THEN Panic
                ELSE parse_block_item(parsed.val, parsed.rest))

\* a turn of the outer loop of parse_css_value: ';' ends the loop, None
\* aborts
TurnValue ==
    /\ shape.loop = "parse_css_value"
    /\ LoopTurn(parsed.rest # <<>> /\ Head(parsed.rest) = ";",
                IF parsed.rest = <<>> THEN Panic
                ELSE parse_css_value_item(parsed.val, parsed.rest))

\* a turn of the inner loop of parse_css_value: a token is collected and
\* pushed, then ';' ends the loop and ' ' has the whitespace skipped
TurnToken ==
    /\ shape.loop = "parse_css_value_tokens"
    /\ LET token(t) ==
               IF ~t.ok THEN LoopTurn(FALSE, Panic)
               ELSE IF Head(t.rest) = ";"
               THEN /\ LoopTurn(TRUE, t)
               ELSE LoopTurn(FALSE, Ok(t.val, skip_whitespace(t.rest)))
       IN  token(parse_css_value_token(parsed.val, parsed.rest))

NextLoops ==
    \/ TurnHtml
    \/ TurnContent
    \/ TurnAttributes
    \/ TurnCss
    \/ TurnBlock
    \/ TurnValue
    \/ TurnToken

SpecLoops == InitLoops /\ [][NextLoops]_vars

\* a turn after which the loop goes on has consumed at least one character
TurnConsumes ==
    (pc = "looping" /\ pc' = "looping") =>
        Len(parsed'.rest) < Len(parsed.rest)

\* a loop that goes on has consumed at least one character for each of its
\* turns, so that it has a turn left to take and takes no more turns than
\* the text has characters before the turn that ends it
TurnsBounded ==
    pc = "looping" => hit + Len(parsed.rest) <= Len(source)

(***************************************************************************)
(* C29.  Every turn of every parser loop consumes at least one character    *)
(* of the text or aborts, so that no loop goes on for ever: a loop in front *)
(* of a text of n characters has returned or aborted after n + 1 turns.     *)
(***************************************************************************)
C29_LoopsTerminate ==
    /\ [][TurnConsumes]_vars
    /\ []TurnsBounded
    /\ [](hit = Len(source) + 1 => pc \in {"returned", "aborted"})

\* the loop of parse_block returns after four turns on the text " w:1; }"
C29_BlockReturned ==
    /\ pc = "returned"
    /\ shape.loop = "parse_block"
    /\ source = <<" ", "w", ":", "1", ";", " ", "}">>
    /\ hit = 4

(***************************************************************************)
(* The window events under test: the window shows a layout of one link, or  *)
(* has no layout yet, and is sent cursor moves, mouse buttons and keys in   *)
(* any order.  `hit` keeps what the handler did last: the kind of the last  *)
(* event, the y of the mouse at the last left click, and whether the last   *)
(* event called open_link.                                                  *)
(***************************************************************************)
MaxScroll == 60

MaxUrl == 2

LinkYs == {40, 60}

\* no layout yet, or a layout with the link at one of the heights
ToolbarShapes == {None} \cup {Some(y) : y \in LinkYs}

LinkWord(y) ==
    [word |-> <<"A">>, position |-> Position_new(0, y), width |-> 25, height |-> 20]

CursorPositions == {Position_new(5, 49), Position_new(5, 50)}

\* Key::Character and Key::Named
Character(text) == [kind |-> "Character", text |-> text]

Named(text) == [kind |-> "Named", text |-> text]

Keys ==
    {Character(<<c>>) : c \in {"j", "k", "d", "u"}}
        \cup {Named(n) : n \in {<<"B", "a", "c", "k", "s", "p", "a", "c", "e">>, <<"E", "n", "t", "e", "r">>, <<"T", "a", "b">>}}

InitToolbar ==
    /\ pc = "open"
    /\ shape \in ToolbarShapes
    /\ source = <<>>
    /\ parsed = Panic
    /\ document = Panic
    /\ viewport = Size_new(100, 60)
    /\ layout = IF shape # None
                THEN Ok(LayoutOfSentence(<<LinkWord(shape[1])>>), <<>>)
                ELSE Panic
    /\ mouse_position = Position_new(0, 0)
    /\ hit = [event |-> "none", click |-> None, opened |-> FALSE]
    /\ scroll_y = 0
    /\ focused_on_toolbar = FALSE
    /\ toolbar = Toolbar_new

\* the test for the toolbar with the line y = 50 taken in
on_toolbar_with_edge(position) == position.y <= 50

\* Window::handle_click, the test for the toolbar
on_toolbar(position) == position.y < 50

\* Window::open_link: get_site, parse_html or set_elements may abort;
\* otherwise the elements of the page (here a page without elements) become
\* the document and the link the URL of the toolbar
OpenLink(link) ==
    \/ /\ pc' = "aborted"
       /\ UNCHANGED <<document, toolbar>>
    \/ /\ pc' = pc
       /\ document' = Ok(Document_new(<<>>, <<>>), <<>>)
       /\ toolbar' = [toolbar EXCEPT !.url = link]

\* the links of the layout that have the point inside, in the order of the
\* two loops of handle_click
LinksAt(x, y) ==
    IF ~layout.ok THEN <<>>
    ELSE LET sentences ==
                 Concat([p \in DOMAIN layout.val.paragraphs |->
                            layout.val.paragraphs[p].sentences])
         IN  SelectSeq(sentences,
                       LAMBDA sentence :
                           /\ sentence.href # None
                           /\ Sentence_is_position_inside(sentence, x, y))

\* WindowEvent::CursorMoved: Window::update_cursor keeps the position
UpdateCursor ==
    /\ pc = "open"
    /\ \E position \in CursorPositions : mouse_position' = position
    /\ hit' = [hit EXCEPT !.event = "move", !.opened = FALSE]
    /\ UNCHANGED <<pc, shape, source, parsed, document, viewport, layout,
                   scroll_y, focused_on_toolbar, toolbar>>

\* WindowEvent::MouseInput: the left button going down is handed to
\* Window::handle_click, any other button or state does nothing
MouseInput ==
    /\ pc = "open"
    /\ \E button \in {"Left", "Right"}, state \in {"Pressed", "Released"} :
          IF button # "Left" \/ state # "Pressed" THEN UNCHANGED vars
          ELSE IF on_toolbar(mouse_position)
          THEN /\ focused_on_toolbar' = TRUE
               /\ hit' = [event |-> "click", click |-> Some(mouse_position.y),
                          opened |-> FALSE]
               /\ UNCHANGED <<pc, document, toolbar>>
          ELSE /\ focused_on_toolbar' = FALSE
               /\ LET links == LinksAt(mouse_position.x,
                                       mouse_position.y - scroll_y)
                  IN  /\ hit' = [event |-> "click",
                                 click |-> Some(mouse_position.y),
                                 opened |-> links # <<>>]
                      /\ IF links # <<>> THEN OpenLink(Head(links).href[1])
                         ELSE UNCHANGED <<pc, document, toolbar>>
    /\ UNCHANGED <<shape, source, parsed, viewport, layout, mouse_position,
                   scroll_y>>

\* the arm of window_event for a key going down while the toolbar is not
\* focused: j, k, d and u scroll the page
ScrollKey(key) ==
    /\ scroll_y' = CASE key = Character(<<"j">>) -> scroll_y - 10
                     [] key = Character(<<"k">>) -> scroll_y + 10
                     [] key = Character(<<"d">>) -> scroll_y + viewport.height
                     [] key = Character(<<"u">>) -> scroll_y - viewport.height
                     [] OTHER -> scroll_y
    /\ scroll_y' \in -MaxScroll..MaxScroll
    /\ UNCHANGED <<pc, document, toolbar>>

\* the arm of window_event for a key going down while the toolbar is
\* focused: a character is put at the end of the URL, Backspace takes the
\* last character of a URL that has one, Enter opens the URL
ToolbarKey(key) ==
    /\ CASE key.kind = "Character" ->
                /\ Len(toolbar.url) < MaxUrl
                /\ toolbar' = [toolbar EXCEPT !.url = @ \o key.text]
                /\ UNCHANGED <<pc, document>>
         [] key = Named(<<"B", "a", "c", "k", "s", "p", "a", "c", "e">>) ->
                /\ toolbar' = IF toolbar.url # <<>>
                              THEN [toolbar EXCEPT
                                       !.url = SubSeq(@, 1, Len(@) - 1)]
                              ELSE toolbar
                /\ UNCHANGED <<pc, document>>
         [] key = Named(<<"E", "n", "t", "e", "r">>) -> OpenLink(toolbar.url)
         [] OTHER -> UNCHANGED <<pc, document, toolbar>>
    /\ UNCHANGED scroll_y

\* WindowEvent::KeyboardInput: only a key going down is handled
KeyboardInput ==
    /\ pc = "open"
    /\ \E key \in Keys, state \in {"Pressed", "Released"} :
          IF state # "Pressed" THEN UNCHANGED vars
          ELSE /\ IF ~focused_on_toolbar THEN ScrollKey(key)
                  ELSE ToolbarKey(key)
               /\ hit' = [hit EXCEPT
                             !.event = "key",
                             !.opened = (focused_on_toolbar
                                             /\ key = Named(<<"E", "n", "t", "e", "r">>))]
    /\ UNCHANGED <<shape, source, parsed, viewport, layout, mouse_position,
                   focused_on_toolbar>>

NextToolbar ==
    \/ UpdateCursor
    \/ MouseInput
    \/ KeyboardInput

SpecToolbar == InitToolbar /\ [][NextToolbar]_vars

\* the toolbar is focused exactly when a left click has been made and the
\* last one was made with the mouse above y = 50
FocusFollowsClick ==
    focused_on_toolbar = (hit.click # None /\ hit.click[1] < 50)

\* a left click with the mouse above y = 50 opens no link: the document, the
\* URL and the scroll position stay as they are and nothing aborts
ToolbarClickOpensNothing ==
    (hit'.event = "click" /\ mouse_position.y < 50) =>
        /\ ~hit'.opened
        /\ UNCHANGED <<pc, document, toolbar, scroll_y>>

\* a key changes the scroll position only while the toolbar is not focused
\* and the URL only while it is
KeyFollowsFocus ==
    hit'.event = "key" =>
        /\ scroll_y' # scroll_y => ~focused_on_toolbar
        /\ toolbar'.url # toolbar.url => focused_on_toolbar

(***************************************************************************)
(* C30.  Over any sequence of cursor moves, left clicks and key presses:    *)
(* focused_on_toolbar is true exactly when the most recent left click was   *)
(* made with the mouse at y < 50; a click at y < 50 never opens a link; a   *)
(* key press changes scroll_y only while the toolbar is not focused and     *)
(* edits toolbar.url only while it is focused.                              *)
(***************************************************************************)
C30_ToolbarFocus ==
    /\ []FocusFollowsClick
    /\ [][ToolbarClickOpensNothing]_vars
    /\ [][KeyFollowsFocus]_vars

\* the toolbar was clicked with the mouse on a link at y = 49, then the URL
\* was edited, while the page stayed where it was
C30_TypedInToolbar ==
    /\ pc = "open"
    /\ shape = Some(40)
    /\ focused_on_toolbar
    /\ hit = [event |-> "key", click |-> Some(49), opened |-> FALSE]
    /\ mouse_position = Position_new(5, 49)
    /\ toolbar.url = <<"N", "j">>
    /\ scroll_y = -10
    /\ document = Panic

====
